---- MODULE Spec2Model ----
(***************************************************************************)
(* Model of tsgen: the generate / type-check / retry loop                  *)
(* (generateFunctionWithRetries), the LLM test enhancer                    *)
(* (enhanceTestsWithLLM), the generic test generator                       *)
(* (generateGenericTests), the test runner (runTests), the type checker    *)
(* with its temporary files (typeCheckFunction, createTempFiles), the      *)
(* signature extractor (extractFunctionSignature) and the /api/generate    *)
(* handler (startServer).                                                  *)
(*                                                                         *)
(* Texts are sequences of one-character strings, so that trim() is         *)
(* computed, not assumed.  An oracle reply is a record                     *)
(* [fenced, body]: whether the reply is wrapped in ``` markers, and what   *)
(* the TypeScript compiler has to say about the code between them.         *)
(***************************************************************************)
EXTENDS Integers, Sequences, FiniteSets, TLC

\* ------------------------------------------------------------------------
\* Bounds
\* ------------------------------------------------------------------------
MaxRetriesBound == 3
MaxParams == 2
MaxCandidates == 2

\* ------------------------------------------------------------------------
\* State
\* ------------------------------------------------------------------------
VARIABLES
    pc,               \* position of generateFunctionWithRetries
    userGoal,         \* argument userGoal
    config,           \* argument config: [maxRetries, llmFunction]
    iteration,        \* index of the generate+verify pass in flight
    currentCode,      \* let currentCode
    typeCheckResult,  \* let typeCheckResult
    iterationHistory, \* const iterationHistory
    prompts,          \* every prompt handed to config.llmFunction, in order
    tscInputs,        \* every text handed to typeCheckFunction, in order
    result,           \* the GenerationResult returned, or NoResult
    thrown,           \* the message of the Error thrown, or NoError
    epc,              \* position of enhanceTestsWithLLM
    signature,        \* request.functionSignature
    timer,            \* the setTimeout behind timeoutPromise
    llm,              \* position of the async body behind llmPromise
    llmError,         \* the message of the Error llmPromise rejected with
    llmValue,         \* the list llmPromise fulfilled with
    race,             \* which promise settled Promise.race
    chatRequests,     \* number of POSTs to /chat/completions
    reply,            \* the content of the oracle's reply, once read
    enhanced,         \* what enhanceTestsWithLLM returned
    gpc,              \* position of generateGenericTests
    genericTests,     \* what generateGenericTests returned
    rpc,              \* position of runTests
    lintResult,       \* lintResult.issues
    originalPrompt,   \* argument originalPrompt is a non-empty text
    userTestCases,    \* argument userTestCases
    suite,            \* [generic, llm, user]: the cases of the run
    files,            \* the temporary files of runTests that exist
    stderr,           \* testResult.stderr of the spawned executor
    testResult,       \* the TestResult returned, or NoResult
    calls,            \* calls made: [enhancer, writes, executor]
    tpc,              \* position of typeCheckFunction (io/tsc.ts)
    tcCode,           \* argument functionCode
    tmp,              \* what exists of the temporary directory and file
    cpc,              \* position of the cleanup() the finally block started
    execResult,       \* how the tsc command ended
    typeCheck,        \* what typeCheckFunction returned or threw
    response,         \* the response of POST /api/generate
    xpc,              \* position of extractFunctionSignature
    sourceCode,       \* argument code, as the sequence of its tokens
    extracted         \* what extractFunctionSignature returned or threw

retryVars == <<pc, userGoal, config, iteration, currentCode, typeCheckResult,
               iterationHistory, prompts, tscInputs, result, thrown>>

enhanceVars == <<epc, signature, timer, llm, llmError, llmValue, race,
                 chatRequests, reply, enhanced>>

genericVars == <<gpc, genericTests>>

runVars == <<rpc, lintResult, originalPrompt, userTestCases, suite, files,
             stderr, testResult, calls>>

\* The variables of the machines that follow the generic test generator.
tcVars == <<tpc, tcCode, tmp, cpc, execResult, typeCheck>>

apiVars == <<response>>

extractVars == <<xpc, sourceCode, extracted>>

restVars == <<runVars, tcVars, apiVars, extractVars>>

vars == <<retryVars, enhanceVars, genericVars, restVars>>

NoResult == [none |-> TRUE]
NoError == "none"
NoCode == [fenced |-> FALSE, body |-> "none"]
NoTypeCheck == [none |-> TRUE]
NoContent == [kind |-> "pending", items |-> <<>>, chunks |-> <<>>]

\* ------------------------------------------------------------------------
\* Texts
\* ------------------------------------------------------------------------
RECURSIVE TrimStart(_)
TrimStart(s) ==
    IF s = <<>> THEN <<>>
    ELSE IF Head(s) = " " THEN TrimStart(Tail(s))
    ELSE s

RECURSIVE TrimEnd(_)
TrimEnd(s) ==
    IF s = <<>> THEN <<>>
    ELSE IF s[Len(s)] = " " THEN TrimEnd(SubSeq(s, 1, Len(s) - 1))
    ELSE s

\* String.prototype.trim
Trim(s) == TrimEnd(TrimStart(s))

Goals == { <<>>, <<" ">>, <<" ", " ">>, <<"g">>, <<" ", "g", " ">> }

\* What the compiler reports for the code of a reply, once the fence
\* markers around it are gone.
Bodies == { "clean", "warning", "error", "mixed", "blank" }

Replies == [fenced : BOOLEAN, body : Bodies]

\* extractCodeBlock: both replace() calls delete the ``` markers, trim()
\* the rest.
extractCodeBlock(input) == [fenced |-> FALSE, body |-> input.body]

\* !functionCode?.trim() : a text is blank when nothing is left after
\* trim(); a reply that still carries its fence markers is never blank.
IsBlank(text) == ~text.fenced /\ text.body = "blank"

\* ------------------------------------------------------------------------
\* Type checker
\* ------------------------------------------------------------------------
Err(code) == [errorCode |-> code, severity |-> "error"]
Warn(code) == [errorCode |-> code, severity |-> "warning"]

\* The diagnostics tsc prints for a body.
BodyErrors(body) ==
    CASE body = "clean"   -> <<>>
      [] body = "warning" -> << Warn(6133) >>
      [] body = "error"   -> << Err(2322) >>
      [] body = "mixed"   -> << Warn(6133), Err(2322), Err(2304) >>
      [] OTHER            -> <<>>

\* A text that still carries ``` markers is a tagged template whose tag is
\* a string: tsc reports TS2349 on it, ahead of what it finds in the body.
TscErrors(text) ==
    IF text.fenced THEN << Err(2349) >> \o BodyErrors(text.body)
    ELSE BodyErrors(text.body)

\* typeCheckFunction, on the path that returns.
typeCheckFunction(functionCode) ==
    LET errors == TscErrors(functionCode)
    IN [ signature |-> "signature",
         errors |-> errors,
         isValid |-> (Len(errors) = 0) ]

\* Mutant of hasCompilationErrors: a warning counts as an error.
hasCompilationErrorsAnySeverity(res) == Len(res.errors) > 0

\* hasCompilationErrors
hasCompilationErrors(res) ==
    \E i \in 1..Len(res.errors) : res.errors[i].severity = "error"

\* errors.filter(e => e.severity === 'error').length
RECURSIVE ErrorCount(_)
ErrorCount(errors) ==
    IF errors = <<>> THEN 0
    ELSE (IF Head(errors).severity = "error" THEN 1 ELSE 0)
         + ErrorCount(Tail(errors))

\* ------------------------------------------------------------------------
\* Prompts
\* ------------------------------------------------------------------------
createFunctionPrompt(goal) == [kind |-> "initial", userGoal |-> goal]

\* Mutant of createRetryPrompt: the prompt keeps quoting the first reply.
createRetryPromptFirstReply(goal, previousCode, res) ==
    [kind |-> "retry", userGoal |-> goal,
     previousCode |-> IF iterationHistory = <<>> THEN previousCode
                      ELSE iterationHistory[1].code,
     errors |-> res.errors, signature |-> res.signature]

createRetryPrompt(goal, previousCode, res) ==
    [kind |-> "retry", userGoal |-> goal, previousCode |-> previousCode,
     errors |-> res.errors, signature |-> res.signature]

\* ------------------------------------------------------------------------
\* generateFunctionWithRetries
\* ------------------------------------------------------------------------
IterationStep(k, code, res) ==
    [iteration |-> k, code |-> code, errors |-> res.errors,
     errorCount |-> ErrorCount(res.errors)]

\* Mutant of GenerationResult: the loop counter is returned as it stands.
GenerationResultRawCounter(code, res, iter, history) ==
    [success |-> ~hasCompilationErrors(res),
     code |-> code,
     typeCheckResult |-> res,
     iterations |-> iter,
     iterationHistory |-> history]

GenerationResult(code, res, iter, history) ==
    [success |-> ~hasCompilationErrors(res),
     code |-> code,
     typeCheckResult |-> res,
     iterations |-> iter - 1,
     iterationHistory |-> history]

\* Mutant of LoopContinues: the budget test is off by one.
LoopContinuesStrict(iter, res) ==
    iter < config.maxRetries /\ hasCompilationErrors(res)

\* Mutant of LoopContinues: the loop runs the whole budget, errors or not.
LoopContinuesBlind(iter, res) ==
    iter <= config.maxRetries

\* while (iteration <= config.maxRetries && hasCompilationErrors(...))
LoopContinues(iter, res) ==
    iter <= config.maxRetries /\ hasCompilationErrors(res)

\* Mutant of GoalIsEmpty: the goal is tested without trim().
GoalIsEmptyNoTrim(goal) == goal = <<>>

\* !userGoal?.trim()
GoalIsEmpty(goal) == Trim(goal) = <<>>

NotReturned == [returned |-> FALSE, tests |-> <<>>]

\* generateGenericTests has not been called.
GenericIdle ==
    /\ gpc = "idle"
    /\ genericTests = <<>>

\* enhanceTestsWithLLM has not been called.
EnhanceIdle ==
    /\ epc = "idle"
    /\ timer = "unset"
    /\ llm = "unstarted"
    /\ llmError = NoError
    /\ llmValue = <<>>
    /\ race = "pending"
    /\ chatRequests = 0
    /\ reply = NoContent
    /\ enhanced = NotReturned

NoStderr == [kind |-> "none"]
NoCalls == [enhancer |-> 0, writes |-> 0, executor |-> 0]
NoSuite == [generic |-> <<>>, llm |-> <<>>, user |-> <<>>]

\* runTests has not been called.
RunIdle ==
    /\ rpc = "idle"
    /\ lintResult = <<>>
    /\ originalPrompt = FALSE
    /\ userTestCases = <<>>
    /\ suite = NoSuite
    /\ files = {}
    /\ stderr = NoStderr
    /\ testResult = NoResult
    /\ calls = NoCalls

\* None of the machines that follow the generic test generator runs.
\* typeCheckFunction of io/tsc.ts has not been called.
TcIdle ==
    /\ tpc = "idle"
    /\ tcCode = NoCode
    /\ tmp = {}
    /\ cpc = "unstarted"
    /\ execResult = "none"
    /\ typeCheck = NoResult

NoResponse == [none |-> TRUE]

\* No request has been answered.
ApiIdle == response = NoResponse

\* extractFunctionSignature has not been called.
ExtractIdle ==
    /\ xpc = "idle"
    /\ sourceCode = <<>>
    /\ extracted = NoResult

RestIdle == RunIdle /\ TcIdle /\ ApiIdle /\ ExtractIdle

InitRetry ==
    /\ pc = "init"
    /\ userGoal \in Goals
    /\ config \in [maxRetries : -1..MaxRetriesBound, llmFunction : BOOLEAN]
    /\ iteration = 0
    /\ currentCode = NoCode
    /\ typeCheckResult = NoTypeCheck
    /\ iterationHistory = <<>>
    /\ prompts = <<>>
    /\ tscInputs = <<>>
    /\ result = NoResult
    /\ thrown = NoError
    /\ signature = [name |-> "fn", parameters |-> <<>>]
    /\ EnhanceIdle
    /\ GenericIdle
    /\ RestIdle

\* Entry: the three guards, then the initial prompt goes to the oracle.
GenerateStart ==
    /\ pc = "init"
    /\ IF GoalIsEmpty(userGoal)
       THEN /\ pc' = "failed"
            /\ thrown' = "User goal cannot be empty or only whitespace"
            /\ UNCHANGED prompts
       ELSE IF ~config.llmFunction
       THEN /\ pc' = "failed"
            /\ thrown' = "LLM function must be provided in config"
            /\ UNCHANGED prompts
       ELSE IF config.maxRetries < 0
       THEN /\ pc' = "failed"
            /\ thrown' = "Max retries must be non-negative"
            /\ UNCHANGED prompts
       ELSE /\ pc' = "llm"
            /\ prompts' = << createFunctionPrompt(userGoal) >>
            /\ UNCHANGED thrown
    /\ UNCHANGED <<userGoal, config, iteration, currentCode, typeCheckResult,
                   iterationHistory, tscInputs, result>>
    /\ UNCHANGED <<enhanceVars, genericVars, restVars>>

\* await config.llmFunction(...) resolves; the reply goes to the type
\* checker: extracted in the initial pass, as it is in a retry pass.
LlmResolve ==
    /\ pc = "llm"
    /\ \E text \in Replies :
         /\ currentCode' = text
         /\ tscInputs' = Append(tscInputs,
                IF iteration = 0 THEN extractCodeBlock(text) ELSE text)
    /\ pc' = "tsc"
    /\ UNCHANGED <<userGoal, config, iteration, typeCheckResult,
                   iterationHistory, prompts, result, thrown>>
    /\ UNCHANGED <<enhanceVars, genericVars, restVars>>

\* Mutant of LlmReject: the rejection is caught and the steps recorded so
\* far are returned.
LlmRejectCaught ==
    /\ pc = "llm"
    /\ pc' = "done"
    /\ thrown' = "LLM error"
    /\ result' = [success |-> FALSE, code |-> currentCode,
                  typeCheckResult |-> typeCheckResult,
                  iterations |-> iteration,
                  iterationHistory |-> iterationHistory]
    /\ UNCHANGED <<userGoal, config, iteration, currentCode, typeCheckResult,
                   iterationHistory, prompts, tscInputs>>
    /\ UNCHANGED <<enhanceVars, genericVars, restVars>>

\* await config.llmFunction(...) rejects: nothing catches it.
LlmReject ==
    /\ pc = "llm"
    /\ pc' = "failed"
    /\ thrown' = "LLM error"
    /\ UNCHANGED <<userGoal, config, iteration, currentCode, typeCheckResult,
                   iterationHistory, prompts, tscInputs, result>>
    /\ UNCHANGED <<enhanceVars, genericVars, restVars>>

\* await typeCheckFunction(...) resolves: the step is recorded, then the
\* loop condition decides between another oracle call and the return.
TypeCheckResolve ==
    /\ pc = "tsc"
    /\ ~IsBlank(tscInputs[Len(tscInputs)])
    /\ LET res == typeCheckFunction(tscInputs[Len(tscInputs)])
           history == Append(iterationHistory,
                             IterationStep(iteration, currentCode, res))
           next == iteration + 1
       IN /\ typeCheckResult' = res
          /\ iterationHistory' = history
          /\ iteration' = next
          /\ IF LoopContinues(next, res)
             THEN /\ prompts' = Append(prompts,
                        createRetryPrompt(userGoal, currentCode, res))
                  /\ pc' = "llm"
                  /\ UNCHANGED result
             ELSE /\ result' = GenerationResult(currentCode, res, next, history)
                  /\ pc' = "done"
                  /\ UNCHANGED prompts
    /\ UNCHANGED <<userGoal, config, currentCode, tscInputs, thrown>>
    /\ UNCHANGED <<enhanceVars, genericVars, restVars>>

\* await typeCheckFunction(...) rejects: blank code, or the temporary
\* files could not be written.
TypeCheckReject ==
    /\ pc = "tsc"
    /\ pc' = "failed"
    /\ thrown' = IF IsBlank(tscInputs[Len(tscInputs)])
                 THEN "Function code cannot be empty or only whitespace"
                 ELSE "Type checking failed"
    /\ UNCHANGED <<userGoal, config, iteration, currentCode, typeCheckResult,
                   iterationHistory, prompts, tscInputs, result>>
    /\ UNCHANGED <<enhanceVars, genericVars, restVars>>

NextRetry ==
    \/ GenerateStart
    \/ LlmResolve
    \/ LlmReject
    \/ TypeCheckResolve
    \/ TypeCheckReject

SpecRetry == InitRetry /\ [][NextRetry]_vars

\* ------------------------------------------------------------------------
\* Signatures
\* ------------------------------------------------------------------------
\* A type annotation is a sequence of tokens ("number[]" is
\* <<"number", "[]">>), so that toLowerCase() and includes() are computed
\* on the spelling the source code sees.
Types ==
    { <<"number">>, <<"string">>, <<"boolean">>, <<"number", "[]">>,
      <<"Array", "<", "number", ">">>, <<"boolean", "[]">>, <<"object">>,
      <<"Date">>, <<"any">> }

\* String.prototype.toLowerCase, token by token.
LowerToken(tok) ==
    CASE tok = "Array"    -> "array"
      [] tok = "Date"     -> "date"
      [] tok = "RegExp"   -> "regexp"
      [] tok = "Function" -> "function"
      [] tok = "Object"   -> "object"
      [] OTHER            -> tok

toLowerCase(type) == [i \in 1..Len(type) |-> LowerToken(type[i])]

\* String.prototype.includes
includes(type, needle) == \E i \in 1..Len(type) : type[i] = needle

\* The name the extractor gives the i-th parameter.
ParamName(i) ==
    << CASE i = 1 -> "a" [] i = 2 -> "b" [] i = 3 -> "c" [] OTHER -> "d" >>

ParamShapes ==
    [type : Types, isOptional : BOOLEAN, isRest : {FALSE}]
    \cup { [type |-> <<"number", "[]">>, isOptional |-> FALSE,
            isRest |-> TRUE] }

\* A rest parameter comes last.
ShapesOk(shapes) ==
    \A i \in 1..Len(shapes) : shapes[i].isRest => i = Len(shapes)

Named(shapes) ==
    [i \in 1..Len(shapes) |->
        [name |-> ParamName(i), type |-> shapes[i].type,
         isOptional |-> shapes[i].isOptional, isRest |-> shapes[i].isRest]]

SignaturesOfArity(n) ==
    { [name |-> "fn", parameters |-> Named(shapes)] :
        shapes \in { sh \in [1..n -> ParamShapes] : ShapesOk(sh) } }

\* Parameter names as the words that "_" joins: x, x_negative, y.
UnderscoreNames == { <<"x">>, <<"x", "negative">>, <<"y">> }

\* Signatures whose parameters carry pairwise distinct names out of
\* UnderscoreNames.
UnderscoreSignatures(n) ==
    { [name |-> "fn",
       parameters |->
           [i \in 1..n |->
               [name |-> names[i], type |-> types[i],
                isOptional |-> FALSE, isRest |-> FALSE]]] :
        names \in { f \in [1..n -> UnderscoreNames] :
                      \A i, j \in 1..n : f[i] = f[j] => i = j },
        types \in [1..n -> { <<"number">>, <<"string">> }] }

\* signature.parameters.filter(p => !p.isOptional).length
RequiredParams(sig) ==
    Cardinality({ i \in 1..Len(sig.parameters) :
                    ~sig.parameters[i].isOptional })

\* signature.parameters.length
TotalParams(sig) == Len(sig.parameters)

\* ------------------------------------------------------------------------
\* JavaScript values, as far as the validator looks into them
\* ------------------------------------------------------------------------
Undefined == [t |-> "undefined", s |-> <<>>, n |-> 0]
Null == [t |-> "null", s |-> <<>>, n |-> 0]
Str(chars) == [t |-> "string", s |-> chars, n |-> 0]
Num(k) == [t |-> "number", s |-> <<>>, n |-> k]
Bool(b) == [t |-> "boolean", s |-> <<>>, n |-> IF b THEN 1 ELSE 0]
Arr(k) == [t |-> "array", s |-> <<>>, n |-> k]

\* ToBoolean: what !x and Boolean(x) look at.
Truthy(v) ==
    CASE v.t = "undefined" -> FALSE
      [] v.t = "null"      -> FALSE
      [] v.t = "string"    -> v.s # <<>>
      [] v.t = "number"    -> v.n # 0
      [] v.t = "boolean"   -> v.n = 1
      [] OTHER             -> TRUE

RECURSIVE RemoveChars(_, _)
RemoveChars(chars, banned) ==
    IF chars = <<>> THEN <<>>
    ELSE IF Head(chars) \in banned THEN RemoveChars(Tail(chars), banned)
    ELSE <<Head(chars)>> \o RemoveChars(Tail(chars), banned)

StringLimit == 500

\* sanitizeString, for a string argument ("BACKTICK" stands for the
\* character U+0060).
sanitizeString(chars) ==
    LET stripped == Trim(RemoveChars(RemoveChars(chars, {"<", ">"}),
                                     {"BACKTICK", "$", "{", "}"}))
    IN SubSeq(stripped, 1,
              IF Len(stripped) < StringLimit THEN Len(stripped)
              ELSE StringLimit)

\* sanitizeString, for any argument: String(value) of a non-string.
sanitizeValue(v) ==
    IF v.t = "string" THEN sanitizeString(v.s) ELSE << v.t >>

\* ------------------------------------------------------------------------
\* Oracle replies to the test enhancer
\* ------------------------------------------------------------------------
\* One element of the array the oracle sends.
Candidate(obj, name, description, reasoning, input, shouldThrow) ==
    [obj |-> obj, name |-> name, description |-> description,
     reasoning |-> reasoning, input |-> input, shouldThrow |-> shouldThrow]

GoodCandidate(k) ==
    Candidate(TRUE, Str(<<"case", "<", "k", ">">>), Str(<<"does it">>),
              Str(<<"because">>), Arr(k), Bool(TRUE))

Candidates ==
    { GoodCandidate(k) : k \in 0..(MaxParams + 1) }
    \cup { [GoodCandidate(1) EXCEPT !.name = Str(<<>>)],
           [GoodCandidate(1) EXCEPT !.name = Str(<<"<", ">">>)],
           [GoodCandidate(1) EXCEPT !.description = Undefined],
           [GoodCandidate(1) EXCEPT !.reasoning = Num(7)],
           [GoodCandidate(1) EXCEPT !.shouldThrow = Str(<<"yes">>)],
           [GoodCandidate(1) EXCEPT !.shouldThrow = Undefined],
           [GoodCandidate(1) EXCEPT !.input = Undefined],
           [GoodCandidate(1) EXCEPT !.obj = FALSE] }

\* A {...} chunk of a reply that JSON.parse rejects: the manual scan finds
\* a "name" and a "description" pair in it, or does not.
Chunks == [hasName : BOOLEAN, hasDescription : BOOLEAN]

SeqsUpTo(S, n) == UNION { [1..k -> S] : k \in 0..n }

\* data.choices[0].message.content:
\*   none      - no content in the response
\*   prose     - a text without any [...] in it
\*   json      - a text whose [...] parses, after the clean-up, to items
\*   malformed - a text whose [...] does not parse; chunks are its {...}
Contents ==
    { [kind |-> k, items |-> <<>>, chunks |-> <<>>] : k \in {"none", "prose"} }
    \cup { [kind |-> "json", items |-> it, chunks |-> <<>>] :
             it \in SeqsUpTo(Candidates, MaxCandidates) }
    \cup { [kind |-> "malformed", items |-> <<>>, chunks |-> ch] :
             ch \in SeqsUpTo(Chunks, MaxCandidates) }

\* Mutant of isValidTestCase: the upper bound on the input length is
\* missing.
isValidTestCaseNoUpperBound(test, sig) ==
    /\ test.obj
    /\ Truthy(test.name) /\ test.name.t = "string"
    /\ Truthy(test.description) /\ test.description.t = "string"
    /\ Truthy(test.reasoning) /\ test.reasoning.t = "string"
    /\ test.input.t = "array"
    /\ ~(test.input.n < RequiredParams(sig))
    /\ ~(test.shouldThrow.t # "undefined" /\ test.shouldThrow.t # "boolean")

\* isValidTestCase
isValidTestCase(test, sig) ==
    /\ test.obj
    /\ Truthy(test.name) /\ test.name.t = "string"
    /\ Truthy(test.description) /\ test.description.t = "string"
    /\ Truthy(test.reasoning) /\ test.reasoning.t = "string"
    /\ test.input.t = "array"
    /\ ~( test.input.n < RequiredParams(sig)
          \/ test.input.n > TotalParams(sig) )
    /\ ~(test.shouldThrow.t # "undefined" /\ test.shouldThrow.t # "boolean")

\* extractTestObjectsManually: one placeholder per {...} chunk.
extractTestObjectsManually(chunks) ==
    [i \in 1..Len(chunks) |->
        Candidate(TRUE,
            Str(IF chunks[i].hasName THEN <<"found name">>
                ELSE <<"extracted_test">>),
            Str(IF chunks[i].hasDescription THEN <<"found description">>
                ELSE <<"Manually extracted test">>),
            Str(<<"Extracted from malformed LLM response">>),
            Arr(0), Undefined)]

\* The LLMTestCase pushed for a candidate that passed the validator.
AcceptedTest(test) ==
    [name |-> sanitizeValue(test.name),
     description |-> sanitizeValue(test.description),
     input |-> IF test.input.t = "array"
               THEN [i \in 1..test.input.n |-> "oracle value"] ELSE <<>>,
     shouldThrow |-> IF Truthy(test.shouldThrow) THEN "true" ELSE "false",
     reasoning |-> sanitizeValue(test.reasoning)]

\* for (let i = 0; i < parsedTests.length; i++): validate, then push.
RECURSIVE ValidTests(_, _)
ValidTests(parsedTests, sig) ==
    IF parsedTests = <<>> THEN <<>>
    ELSE (IF isValidTestCase(Head(parsedTests), sig)
          THEN << AcceptedTest(Head(parsedTests)) >> ELSE <<>>)
         \o ValidTests(Tail(parsedTests), sig)

\* parseGeneratedTestCases: whatever is thrown inside ends in return [].
parseGeneratedTestCases(content, sig) ==
    CASE content.kind = "json" -> ValidTests(content.items, sig)
      [] content.kind = "malformed" ->
            ValidTests(extractTestObjectsManually(content.chunks), sig)
      [] OTHER -> <<>>

\* ------------------------------------------------------------------------
\* Fallback tests
\* ------------------------------------------------------------------------
\* getTypicalValueForType
getTypicalValueForType(type) ==
    LET normalizedType == toLowerCase(type)
    IN IF includes(normalizedType, "string") THEN "'test'"
       ELSE IF includes(normalizedType, "number") THEN "3"
       ELSE IF includes(normalizedType, "boolean") THEN "true"
       ELSE IF includes(normalizedType, "array")
               \/ includes(normalizedType, "[]") THEN "[1, 2, 3]"
       ELSE IF includes(normalizedType, "object") THEN "{ key: 'value' }"
       ELSE IF includes(normalizedType, "date") THEN "new Date()"
       ELSE "'defaultValue'"

\* getEmptyValueForType
getEmptyValueForType(type) ==
    LET normalizedType == toLowerCase(type)
    IN IF includes(normalizedType, "string") THEN "''"
       ELSE IF includes(normalizedType, "number") THEN "0"
       ELSE IF includes(normalizedType, "boolean") THEN "false"
       ELSE IF includes(normalizedType, "array")
               \/ includes(normalizedType, "[]") THEN "[]"
       ELSE IF includes(normalizedType, "object") THEN "{}"
       ELSE "null"

FallbackCase(name, description, input, reasoning) ==
    [name |-> name, description |-> description, input |-> input,
     shouldThrow |-> "undefined", reasoning |-> reasoning]

\* generateFallbackTests
generateFallbackTests(sig) ==
    LET params == sig.parameters
        typical == [i \in 1..Len(params) |->
                        getTypicalValueForType(params[i].type)]
        empty == [i \in 1..Len(params) |->
                        getEmptyValueForType(params[i].type)]
    IN (IF Len(params) > 0
        THEN << FallbackCase(<<"functional_typical_case">>,
                    <<"Test", sig.name, "with typical input values">>,
                    typical,
                    <<"Validates basic functionality with expected input types">>) >>
        ELSE <<>>)
       \o
       (IF \E i \in 1..Len(params) :
               includes(params[i].type, "array")
               \/ includes(params[i].type, "string")
        THEN << FallbackCase(<<"functional_empty_inputs">>,
                    <<"Test", sig.name, "with empty inputs">>,
                    empty,
                    <<"Validates handling of empty but valid inputs">>) >>
        ELSE <<>>)
       \o
       << FallbackCase(<<"return_type_consistency">>,
              <<"Verify", sig.name, "returns expected type">>,
              typical,
              <<"Ensures function returns value matching declared return type">>) >>

\* ------------------------------------------------------------------------
\* enhanceTestsWithLLM
\* ------------------------------------------------------------------------
EnhanceTypes == { <<"number">>, <<"string">>, <<"number", "[]">> }

EnhanceSignatures ==
    UNION { { [name |-> "fn", parameters |-> Named(shapes)] :
                shapes \in [1..n -> [type : EnhanceTypes,
                                     isOptional : BOOLEAN,
                                     isRest : {FALSE}]] } :
            n \in 0..MaxParams }

\* generateFunctionWithRetries is not running.
RetryOff ==
    /\ pc = "off"
    /\ userGoal = <<>>
    /\ config = [maxRetries |-> 0, llmFunction |-> FALSE]
    /\ iteration = 0
    /\ currentCode = NoCode
    /\ typeCheckResult = NoTypeCheck
    /\ iterationHistory = <<>>
    /\ prompts = <<>>
    /\ tscInputs = <<>>
    /\ result = NoResult
    /\ thrown = NoError

InitEnhance ==
    /\ RetryOff
    /\ epc = "idle"
    /\ signature \in EnhanceSignatures
    /\ timer = "unset"
    /\ llm = "unstarted"
    /\ llmError = NoError
    /\ llmValue = <<>>
    /\ race = "pending"
    /\ chatRequests = 0
    /\ reply = NoContent
    /\ enhanced = NotReturned
    /\ GenericIdle
    /\ RestIdle

\* Mutant of OnFulfilled: an empty list from the parser is replaced by the
\* fallback list.
OnFulfilledOrFallback(tests) ==
    IF tests = <<>> THEN generateFallbackTests(signature) ELSE tests

\* return await Promise.race([...]) when llmPromise wins with a value.
OnFulfilled(tests) == tests

\* Mutant of OnRejected: the catch block returns an empty list.
OnRejectedEmpty == <<>>

\* catch (error) { return generateFallbackTests(...) }
OnRejected == generateFallbackTests(signature)

\* Mutant of Settle: a settlement is taken whenever it comes, also after
\* the race is over.
SettleAlways(winner, tests) ==
    /\ race' = winner
    /\ enhanced' = [returned |-> TRUE, tests |-> tests]
    /\ epc' = "returned"

\* Promise.race: the first promise to settle decides what the awaiting
\* function does; a later settlement is dropped.
Settle(winner, tests) ==
    IF race = "pending"
    THEN /\ race' = winner
         /\ enhanced' = [returned |-> TRUE, tests |-> tests]
         /\ epc' = "returned"
    ELSE UNCHANGED <<race, enhanced, epc>>

\* The call: the timer is armed, the async body starts and sends its
\* GET /models, and the function awaits the race.
EnhanceStart ==
    /\ epc = "idle"
    /\ epc' = "racing"
    /\ timer' = "armed"
    /\ llm' = "models"
    /\ UNCHANGED <<signature, llmError, llmValue, race, chatRequests, reply, enhanced>>
    /\ UNCHANGED <<retryVars, genericVars, restVars>>

\* getAvailableModels resolves: the POST to /chat/completions goes out.
ModelsResolve ==
    /\ llm = "models"
    /\ llm' = "chat"
    /\ chatRequests' = chatRequests + 1
    /\ UNCHANGED <<epc, signature, timer, llmError, llmValue, race, reply, enhanced>>
    /\ UNCHANGED <<retryVars, genericVars, restVars>>

\* getAvailableModels throws: no connection, a bad status, or no model
\* loaded.
ModelsReject ==
    /\ llm = "models"
    /\ llm' = "rejected"
    /\ llmError' \in { "Cannot connect to LMStudio",
                      "LMStudio server returned a bad status",
                      "No models available in LMStudio" }
    /\ Settle("llm", OnRejected)
    /\ UNCHANGED <<signature, timer, llmValue, chatRequests, reply>>
    /\ UNCHANGED <<retryVars, genericVars, restVars>>

\* fetch(/chat/completions) resolves: !response.ok throws, otherwise the
\* body is awaited.
ChatRespond ==
    /\ llm = "chat"
    /\ \E ok \in BOOLEAN :
         IF ok
         THEN /\ llm' = "json"
              /\ UNCHANGED <<llmError, race, enhanced, epc>>
         ELSE /\ llm' = "rejected"
              /\ llmError' = "LMStudio API error"
              /\ Settle("llm", OnRejected)
    /\ UNCHANGED <<signature, timer, llmValue, chatRequests, reply>>
    /\ UNCHANGED <<retryVars, genericVars, restVars>>

\* fetch(/chat/completions) rejects.
ChatReject ==
    /\ llm = "chat"
    /\ llm' = "rejected"
    /\ llmError' = "fetch failed"
    /\ Settle("llm", OnRejected)
    /\ UNCHANGED <<signature, timer, llmValue, chatRequests, reply>>
    /\ UNCHANGED <<retryVars, genericVars, restVars>>

\* response.json() resolves: no content throws, otherwise the content is
\* parsed and the async body returns the parsed list.
JsonResolve ==
    /\ llm = "json"
    /\ \E content \in Contents :
         /\ reply' = content
         /\ IF content.kind = "none"
            THEN /\ llm' = "rejected"
                 /\ llmError' = "No test cases generated from LLM response"
                 /\ UNCHANGED llmValue
                 /\ Settle("llm", OnRejected)
            ELSE /\ llm' = "fulfilled"
                 /\ llmValue' = parseGeneratedTestCases(content, signature)
                 /\ UNCHANGED llmError
                 /\ Settle("llm", OnFulfilled(llmValue'))
    /\ UNCHANGED <<signature, timer, chatRequests>>
    /\ UNCHANGED <<retryVars, genericVars, restVars>>

\* response.json() rejects: the body is not JSON.
JsonReject ==
    /\ llm = "json"
    /\ llm' = "rejected"
    /\ llmError' = "Unexpected token in JSON"
    /\ Settle("llm", OnRejected)
    /\ UNCHANGED <<signature, timer, llmValue, chatRequests, reply>>
    /\ UNCHANGED <<retryVars, genericVars, restVars>>

\* The timer fires: timeoutPromise rejects.  Nothing clears the timer, so
\* it fires after the return as well.
TimerFire ==
    /\ timer = "armed"
    /\ timer' = "fired"
    /\ Settle("timeout", OnRejected)
    /\ UNCHANGED <<signature, llm, llmError, llmValue, chatRequests, reply>>
    /\ UNCHANGED <<retryVars, genericVars, restVars>>

NextEnhance ==
    \/ EnhanceStart
    \/ ModelsResolve
    \/ ModelsReject
    \/ ChatRespond
    \/ ChatReject
    \/ JsonResolve
    \/ JsonReject
    \/ TimerFire

SpecEnhance == InitEnhance /\ [][NextEnhance]_vars

\* ------------------------------------------------------------------------
\* generateGenericTests
\* ------------------------------------------------------------------------
\* Names are sequences of the words that "_" joins: normal_execution is
\* <<"normal", "execution">>.

\* type.replace(/\[\]$/, '')
StripArraySuffix(type) ==
    IF type # <<>> /\ type[Len(type)] = "[]"
    THEN SubSeq(type, 1, Len(type) - 1)
    ELSE type

\* valueName.includes(needle), for a needle of one or more words.
IncludesWords(words, needle) ==
    \E i \in 1..Len(words) :
        /\ i + Len(needle) - 1 <= Len(words)
        /\ SubSeq(words, i, i + Len(needle) - 1) = needle

\* generateTypicalValue
generateTypicalValue(type) ==
    LET normalizedType == toLowerCase(type)
    IN IF includes(normalizedType, "string") THEN "'test'"
       ELSE IF includes(normalizedType, "number") THEN "3"
       ELSE IF includes(normalizedType, "boolean") THEN "true"
       ELSE IF includes(normalizedType, "array")
               \/ includes(normalizedType, "[]") THEN "[1, 2, 3]"
       ELSE IF includes(normalizedType, "object")
               /\ ~includes(normalizedType, "[]") THEN "{ key: 'value' }"
       ELSE IF includes(normalizedType, "date") THEN "new Date()"
       ELSE IF includes(normalizedType, "regexp") THEN "/test/"
       ELSE IF includes(normalizedType, "function") THEN "() => {}"
       ELSE "'defaultValue'"

\* generateEdgeCaseValue
generateEdgeCaseValue(type) ==
    LET normalizedType == toLowerCase(type)
    IN IF includes(normalizedType, "string") THEN "'test, multibyte'"
       ELSE IF includes(normalizedType, "number") THEN "1"
       ELSE IF includes(normalizedType, "boolean") THEN "false"
       ELSE IF includes(normalizedType, "array")
               \/ includes(normalizedType, "[]") THEN "[]"
       ELSE IF includes(normalizedType, "object")
               /\ ~includes(normalizedType, "[]") THEN "{}"
       ELSE IF includes(normalizedType, "date") THEN "new Date('invalid')"
       ELSE IF includes(normalizedType, "regexp") THEN "/(?:)/"
       ELSE "null"

Entry(valueName, value) == [valueName |-> valueName, value |-> value]

\* Mutant of getBoundaryValues: the array table has lost large_array.
getBoundaryValuesShortArrayTable(type) ==
    LET normalizedType == toLowerCase(type)
    IN IF includes(normalizedType, "number")
       THEN << Entry(<<"zero">>, "0"),
               Entry(<<"negative", "one">>, "-1"),
               Entry(<<"positive", "infinity">>, "Infinity"),
               Entry(<<"negative", "infinity">>, "-Infinity"),
               Entry(<<"not", "a", "number">>, "NaN"),
               Entry(<<"negative", "zero">>, "-0") >>
       ELSE IF includes(normalizedType, "string")
       THEN << Entry(<<"empty", "string">>, "''"),
               Entry(<<"very", "long", "string">>, "'a'.repeat(10000)"),
               Entry(<<"unicode", "string">>, "'emoji'"),
               Entry(<<"null", "char">>, "'\\0'"),
               Entry(<<"newline", "string">>, "'line1\\nline2'") >>
       ELSE IF includes(normalizedType, "array")
               \/ includes(normalizedType, "[]")
       THEN << Entry(<<"empty", "array">>, "[]"),
               Entry(<<"single", "element">>, "[1]") >>
       ELSE <<>>

\* getBoundaryValues: the entries of the returned object, in insertion
\* order.
getBoundaryValues(type) ==
    LET normalizedType == toLowerCase(type)
    IN IF includes(normalizedType, "number")
       THEN << Entry(<<"zero">>, "0"),
               Entry(<<"negative", "one">>, "-1"),
               Entry(<<"positive", "infinity">>, "Infinity"),
               Entry(<<"negative", "infinity">>, "-Infinity"),
               Entry(<<"not", "a", "number">>, "NaN"),
               Entry(<<"negative", "zero">>, "-0") >>
       ELSE IF includes(normalizedType, "string")
       THEN << Entry(<<"empty", "string">>, "''"),
               Entry(<<"very", "long", "string">>, "'a'.repeat(10000)"),
               Entry(<<"unicode", "string">>, "'emoji'"),
               Entry(<<"null", "char">>, "'\\0'"),
               Entry(<<"newline", "string">>, "'line1\\nline2'") >>
       ELSE IF includes(normalizedType, "array")
               \/ includes(normalizedType, "[]")
       THEN << Entry(<<"empty", "array">>, "[]"),
               Entry(<<"single", "element">>, "[1]"),
               Entry(<<"large", "array">>, "new Array(1000)") >>
       ELSE <<>>

\* generateMalformedValue
generateMalformedValue(type) ==
    LET normalizedType == toLowerCase(type)
    IN IF includes(normalizedType, "number") THEN "'not_a_number'"
       ELSE IF includes(normalizedType, "string") THEN "123"
       ELSE IF includes(normalizedType, "boolean") THEN "'true'"
       ELSE IF includes(normalizedType, "array")
               \/ includes(normalizedType, "[]") THEN "'not_an_array'"
       ELSE IF includes(normalizedType, "object")
               /\ ~includes(normalizedType, "[]") THEN "'not_an_object'"
       ELSE IF includes(normalizedType, "date") THEN "'not_a_date'"
       ELSE IF includes(normalizedType, "function") THEN "'not_a_function'"
       ELSE "null"

\* generateEmptyValue
generateEmptyValue(type) ==
    LET normalizedType == toLowerCase(type)
    IN IF includes(normalizedType, "string") THEN "''"
       ELSE IF includes(normalizedType, "number") THEN "0"
       ELSE IF includes(normalizedType, "boolean") THEN "false"
       ELSE IF includes(normalizedType, "array")
               \/ includes(normalizedType, "[]") THEN "[]"
       ELSE IF includes(normalizedType, "object")
               /\ ~includes(normalizedType, "[]") THEN "{}"
       ELSE IF includes(normalizedType, "date") THEN "new Date(0)"
       ELSE "null"

\* generateLargeValue
generateLargeValue(type) ==
    LET normalizedType == toLowerCase(type)
    IN IF includes(normalizedType, "number") THEN "1000"
       ELSE IF includes(normalizedType, "string") THEN "'x'.repeat(100000)"
       ELSE IF includes(normalizedType, "array")
               \/ includes(normalizedType, "[]") THEN "new Array(10000)"
       ELSE IF includes(normalizedType, "object")
               /\ ~includes(normalizedType, "[]") THEN "{ key0 ... key999 }"
       ELSE "null"

TestCase(name, description, input, shouldThrow, expectedError) ==
    [name |-> name, description |-> description, input |-> input,
     shouldThrow |-> shouldThrow, expectedError |-> expectedError]

\* generateTypicalInputs
generateTypicalInputs(parameters) ==
    [i \in 1..Len(parameters) |->
        IF parameters[i].isRest
        THEN generateTypicalValue(StripArraySuffix(parameters[i].type))
        ELSE generateTypicalValue(parameters[i].type)]

\* generateEdgeCaseInputs
generateEdgeCaseInputs(parameters) ==
    [i \in 1..Len(parameters) |->
        generateEdgeCaseValue(StripArraySuffix(parameters[i].type))]

\* generateEmptyInputs
generateEmptyInputs(parameters) ==
    [i \in 1..Len(parameters) |-> generateEmptyValue(parameters[i].type)]

\* parameters.map((p, idx) => idx === i ? value : generateTypicalValue(p.type))
InputsWith(parameters, i, value) ==
    [idx \in 1..Len(parameters) |->
        IF idx = i THEN value ELSE generateTypicalValue(parameters[idx].type)]

\* generateNullTests
generateNullTests(name, parameters) ==
    IF \A i \in 1..Len(parameters) : parameters[i].isOptional THEN <<>>
    ELSE << TestCase(<<"null", "inputs">>,
                <<name, "handles null input values">>,
                [i \in 1..Len(parameters) |->
                    IF parameters[i].isOptional
                    THEN generateTypicalValue(parameters[i].type)
                    ELSE "null"],
                "true", "TypeError"),
            TestCase(<<"undefined", "inputs">>,
                <<name, "handles undefined input values">>,
                [i \in 1..Len(parameters) |->
                    IF parameters[i].isOptional
                    THEN generateTypicalValue(parameters[i].type)
                    ELSE "undefined"],
                "true", "TypeError") >>

\* Mutant of BoundaryTestsOf: shouldThrow looks for infinity only.
BoundaryTestsOfInfinityOnly(name, parameters, i) ==
    LET param == parameters[i]
        boundaryValues == getBoundaryValues(param.type)
    IN [k \in 1..Len(boundaryValues) |->
          TestCase(<<"boundary">> \o param.name \o boundaryValues[k].valueName,
              <<name, "handles">> \o boundaryValues[k].valueName
                  \o <<"value for">> \o param.name,
              InputsWith(parameters, i, boundaryValues[k].value),
              IF IncludesWords(boundaryValues[k].valueName, <<"infinity">>)
              THEN "true" ELSE "false",
              "undefined")]

\* The inner loop of generateBoundaryTests, for parameter i.
BoundaryTestsOf(name, parameters, i) ==
    LET param == parameters[i]
        boundaryValues == getBoundaryValues(param.type)
    IN [k \in 1..Len(boundaryValues) |->
          TestCase(<<"boundary">> \o param.name \o boundaryValues[k].valueName,
              <<name, "handles">> \o boundaryValues[k].valueName
                  \o <<"value for">> \o param.name,
              InputsWith(parameters, i, boundaryValues[k].value),
              IF IncludesWords(boundaryValues[k].valueName, <<"infinity">>)
                 \/ IncludesWords(boundaryValues[k].valueName,
                                  <<"not", "a", "number">>)
              THEN "true" ELSE "false",
              "undefined")]

\* generateBoundaryTests: the outer loop, parameters from..Len.
RECURSIVE BoundaryTestsFrom(_, _, _)
BoundaryTestsFrom(name, parameters, from) ==
    IF from > Len(parameters) THEN <<>>
    ELSE BoundaryTestsOf(name, parameters, from)
         \o BoundaryTestsFrom(name, parameters, from + 1)

generateBoundaryTests(name, parameters) ==
    BoundaryTestsFrom(name, parameters, 1)

\* generateMalformedInputTests: the loop, parameters from..Len.
RECURSIVE MalformedTestsFrom(_, _, _)
MalformedTestsFrom(name, parameters, from) ==
    IF from > Len(parameters) THEN <<>>
    ELSE LET param == parameters[from]
             malformedValue == generateMalformedValue(param.type)
         IN (IF malformedValue # "null"
             THEN << TestCase(<<"malformed">> \o param.name,
                        <<name, "handles malformed">> \o param.type
                            \o <<"for">> \o param.name,
                        InputsWith(parameters, from, malformedValue),
                        "true", "TypeError") >>
             ELSE <<>>)
            \o MalformedTestsFrom(name, parameters, from + 1)

generateMalformedInputTests(name, parameters) ==
    MalformedTestsFrom(name, parameters, 1)

\* generateLargeValueTests: the loop, parameters from..Len.
RECURSIVE LargeTestsFrom(_, _, _)
LargeTestsFrom(name, parameters, from) ==
    IF from > Len(parameters) THEN <<>>
    ELSE LET param == parameters[from]
             largeValue == generateLargeValue(param.type)
         IN (IF largeValue # "null"
             THEN << TestCase(<<"large">> \o param.name,
                        <<name, "handles large">> \o param.type
                            \o <<"for">> \o param.name,
                        InputsWith(parameters, from, largeValue),
                        "undefined", "undefined") >>
             ELSE <<>>)
            \o LargeTestsFrom(name, parameters, from + 1)

generateLargeValueTests(name, parameters) ==
    LargeTestsFrom(name, parameters, 1)

generateGenericTests(sig) ==
    << TestCase(<<"normal", "execution">>,
           <<sig.name, "executes with typical input values">>,
           generateTypicalInputs(sig.parameters), "undefined", "undefined"),
       TestCase(<<"edge", "case", "values">>,
           <<sig.name, "handles edge case input values">>,
           generateEdgeCaseInputs(sig.parameters), "undefined", "undefined") >>
    \o generateNullTests(sig.name, sig.parameters)
    \o generateBoundaryTests(sig.name, sig.parameters)
    \o generateMalformedInputTests(sig.name, sig.parameters)
    \o << TestCase(<<"empty", "values">>,
              <<sig.name, "handles empty/zero values">>,
              generateEmptyInputs(sig.parameters), "undefined", "undefined") >>
    \o generateLargeValueTests(sig.name, sig.parameters)

GenericSignatures ==
    UNION { SignaturesOfArity(n) \cup UnderscoreSignatures(n) :
              n \in 0..MaxParams }

InitGeneric ==
    /\ RetryOff
    /\ EnhanceIdle
    /\ signature \in GenericSignatures
    /\ gpc = "idle"
    /\ genericTests = <<>>
    /\ RestIdle

\* The call of generateGenericTests(signature).
GenerateGeneric ==
    /\ gpc = "idle"
    /\ genericTests' = generateGenericTests(signature)
    /\ gpc' = "done"
    /\ UNCHANGED <<retryVars, enhanceVars, restVars>>

NextGeneric == GenerateGeneric

SpecGeneric == InitGeneric /\ [][NextGeneric]_vars

\* ------------------------------------------------------------------------
\* runTests: linter verdict, user-supplied cases
\* ------------------------------------------------------------------------
\* A LintIssue; the message is the sequence of its phrases.
LintIssue(severity, message, rule) ==
    [severity |-> severity, message |-> message, rule |-> rule]

\* lintResult.issues for the candidate code.
LintOutcomes ==
    { <<>>,
      << LintIssue("error", <<"Parsing error:", "Unexpected token">>,
                   "unknown") >>,
      << LintIssue("warning", <<"Missing semicolon">>, "semi"),
         LintIssue("error", <<"ESLint failed to initialize or run:">>,
                   "eslint-error") >>,
      << LintIssue("warning", <<"Unexpected console statement.">>,
                   "no-console"),
         LintIssue("error", <<"Unterminated string">>, "parser-error") >> }

\* Mutant of hasSyntaxErrors: the rule of the issue is not looked at.
hasSyntaxErrorsByMessage(issues) ==
    \E i \in 1..Len(issues) :
        /\ issues[i].severity = "error"
        /\ \/ includes(issues[i].message, "SyntaxError")
           \/ includes(issues[i].message, "Unexpected token")
           \/ includes(issues[i].message, "Missing semicolon")
           \/ includes(issues[i].message, "Unexpected end of input")

\* const hasSyntaxErrors = lintResult.issues.some(...)
hasSyntaxErrors(issues) ==
    \E i \in 1..Len(issues) :
        /\ issues[i].severity = "error"
        /\ \/ includes(issues[i].message, "SyntaxError")
           \/ includes(issues[i].message, "Unexpected token")
           \/ includes(issues[i].message, "Missing semicolon")
           \/ includes(issues[i].message, "Unexpected end of input")
           \/ issues[i].rule = "parser-error"

\* lintResult.issues.filter(issue => issue.severity === 'warning')
lintWarnings(issues) == SelectSeq(issues, LAMBDA issue : issue.severity = "warning")

\* A user-supplied test case text, as the sequence of its tokens.
UserHints ==
    { <<"input", "5", "should", "return", "6">>,
      <<"input", "[", "1", ",", "2", ",", "3", "]", "should", "return", "6">>,
      <<"should", "throw", "on", "bad", "values">> }

IsDigits(tok) == tok \in {"0", "1", "2", "3", "5", "6"}

\* The position of the first token at or after i that is tok, or 0.
RECURSIVE IndexFrom(_, _, _)
IndexFrom(text, tok, i) ==
    IF i > Len(text) THEN 0
    ELSE IF text[i] = tok THEN i
    ELSE IndexFrom(text, tok, i + 1)

\* testCase.match(/input\s+(\[.*?\]|".*?"|'.*?'|\d+)/i): the tokens of the
\* captured group at the first position where the pattern matches, or <<>>.
RECURSIVE InputMatchFrom(_, _)
InputMatchFrom(testCase, i) ==
    IF i >= Len(testCase) THEN <<>>
    ELSE IF testCase[i] \in {"input", "Input", "INPUT"}
            /\ IsDigits(testCase[i + 1])
    THEN << testCase[i + 1] >>
    ELSE IF testCase[i] \in {"input", "Input", "INPUT"}
            /\ testCase[i + 1] = "["
            /\ IndexFrom(testCase, "]", i + 2) # 0
    THEN SubSeq(testCase, i + 1, IndexFrom(testCase, "]", i + 2))
    ELSE InputMatchFrom(testCase, i + 1)

\* The elements of an array literal given by its tokens "[" ... "]".
ArrayElements(tokens) ==
    SelectSeq(SubSeq(tokens, 2, Len(tokens) - 1), LAMBDA tok : tok # ",")

\* getDefaultValueForType
getDefaultValueForType(type) ==
    LET normalizedType == toLowerCase(type)
    IN IF includes(normalizedType, "string") THEN "'test'"
       ELSE IF includes(normalizedType, "number") THEN "1"
       ELSE IF includes(normalizedType, "boolean") THEN "true"
       ELSE IF includes(normalizedType, "array")
               \/ includes(normalizedType, "[]") THEN "[1]"
       ELSE IF includes(normalizedType, "object") THEN "{}"
       ELSE "null"

\* parseSimpleTestCase: input and shouldThrow.
parseSimpleTestCase(testCase, sig) ==
    LET inputMatch == InputMatchFrom(testCase, 1)
    IN [input |->
            IF inputMatch = <<>>
            THEN [i \in 1..Len(sig.parameters) |->
                     getDefaultValueForType(sig.parameters[i].type)]
            ELSE IF inputMatch[1] # "["
            THEN inputMatch
            ELSE IF IndexFrom(inputMatch, "[", 2) # 0
            THEN << "unevaluated text" >>
            ELSE ArrayElements(inputMatch),
        shouldThrow |->
            \E i \in 1..Len(testCase) :
                testCase[i] \in {"throw", "throws", "error", "errors"}]

\* parseUserTestCases
parseUserTestCases(testCases, sig) ==
    [index \in 1..Len(testCases) |->
        LET parsed == parseSimpleTestCase(testCases[index], sig)
        IN [name |-> <<"user", "test", ToString(index)>>,
            description |-> testCases[index],
            input |-> parsed.input,
            shouldThrow |-> IF parsed.shouldThrow THEN "true" ELSE "false",
            reasoning |-> <<"User-provided test case">>]]

\* ------------------------------------------------------------------------
\* runTests: the assembled unit and the executor's output
\* ------------------------------------------------------------------------
\* `${test.name}_${index}`: the index is all digits, so the text after the
\* last "_" is the index and the text before it is the name.
IndexedName(name, index) == [name |-> name, index |-> index]

\* One test(...) block of the assembled unit.
TestBlock(testName, input, shouldThrow) ==
    [testName |-> testName, input |-> input, shouldThrow |-> shouldThrow]

\* generateGenericTestCode, generateLLMTestCode, generateUserTestCode
generateTestCode(test, index) ==
    TestBlock(IndexedName(test.name, index), test.input,
              test.shouldThrow = "true")

\* generateComprehensiveTestCode: the test(...) blocks, in order; each of
\* the three loops counts from 0.
generateComprehensiveTestCode(genericCases, llmTests, userTests) ==
    [i \in 1..Len(genericCases) |-> generateTestCode(genericCases[i], i - 1)]
    \o [i \in 1..Len(llmTests) |-> generateTestCode(llmTests[i], i - 1)]
    \o [i \in 1..Len(userTests) |-> generateTestCode(userTests[i], i - 1)]

\* [...genericTests, ...llmTests, ...userTests]
AllTests(s) == s.generic \o s.llm \o s.user

\* A line "(pass) <describe> > <name>" or "(fail) <describe> > <name>".
ResultLine(tag, testName) == [tag |-> tag, testName |-> testName]

\* What the code looks for in testResult.stderr: the phrases SyntaxError /
\* Unexpected token / Missing semicolon, the phrase "error:", the phrase
\* "expect(", the per-case lines, and the summary "<n> pass <m> fail".
StderrText(syntaxError, errorColon, expectParen, lines, summary) ==
    [kind |-> "text", syntaxError |-> syntaxError, errorColon |-> errorColon,
     expectParen |-> expectParen, lines |-> lines, summary |-> summary]

\* testResult.stderr is null: the executor could not be spawned.
StderrNull == [kind |-> "null"]

NoSummary == [present |-> FALSE, pass |-> 0, fail |-> 0]

\* The numbers an aggregate summary line carries.
Summaries ==
    { NoSummary }
    \cup [present : {TRUE}, pass : {0, 2, 7}, fail : {0, 3}]

\* The names the executor may report: the names of the unit's first
\* generic, domain and user test(...) blocks.
ReportedNames(s) ==
    LET unit == generateComprehensiveTestCode(s.generic, s.llm, s.user)
        firsts == { 1, Len(s.generic) + 1, Len(s.generic) + Len(s.llm) + 1 }
    IN { unit[i].testName : i \in firsts \cap (1..Len(unit)) }

\* The outputs the executor may leave for the unit.
Stderrs(s) ==
    { StderrNull }
    \cup { StderrText(m[1], m[2], m[3], lines, summary) :
             m \in BOOLEAN \X BOOLEAN \X BOOLEAN,
             lines \in { <<>> } \cup
                 { << ResultLine(tag, n) >> :
                     tag \in {"pass", "fail"}, n \in ReportedNames(s) },
             summary \in Summaries }

\* stderr.includes('(pass)'), stderr.includes('(fail)')
HasLine(text, tag) == \E i \in 1..Len(text.lines) : text.lines[i].tag = tag

\* stderr.includes('pass'): a (pass) line or the word pass of the summary.
IncludesPass(text) == HasLine(text, "pass") \/ text.summary.present

\* const hasCompilationError
hasCompilationError(text) ==
    \/ text.syntaxError
    \/ /\ text.errorColon
       /\ ~text.expectParen
       /\ ~HasLine(text, "pass")
       /\ ~HasLine(text, "fail")

TestCaseResult(name, description, passed, status, message) ==
    [name |-> name, description |-> description, passed |-> passed,
     status |-> status, message |-> message]

\* test.name || `test_${i}`
ResultName(test, i) ==
    IF test.name = <<>> THEN <<"test", ToString(i)>> ELSE test.name

\* test.description || 'Generated test'
ResultDescription(test) ==
    IF test.description = <<>> THEN <<"Generated test">> ELSE test.description

\* testResultMap.get(testName): the last line that carries testName, as a
\* sequence of at most one line.
RECURSIVE LinesFor(_, _)
LinesFor(lines, testName) ==
    IF lines = <<>> THEN <<>>
    ELSE IF lines[Len(lines)].testName = testName
    THEN << lines[Len(lines)] >>
    ELSE LinesFor(SubSeq(lines, 1, Len(lines) - 1), testName)

\* Mutant of parseSimpleTestResults: the positional test is i <= count.
parseSimpleTestResultsOffByOne(text, allTests) ==
    IF hasCompilationError(text) /\ ~IncludesPass(text)
    THEN [i \in 1..Len(allTests) |->
            TestCaseResult(ResultName(allTests[i], i - 1),
                ResultDescription(allTests[i]), FALSE, "error",
                <<"Compilation error in generated code">>)]
    ELSE [i \in 1..Len(allTests) |->
            LET found == LinesFor(text.lines,
                                  IndexedName(allTests[i].name, i - 1))
                totalPassCount ==
                    IF text.summary.present THEN text.summary.pass ELSE 0
                passed == IF found # <<>> THEN found[1].tag = "pass"
                          ELSE i - 1 <= totalPassCount
            IN TestCaseResult(ResultName(allTests[i], i - 1),
                   ResultDescription(allTests[i]), passed,
                   IF passed THEN "passed" ELSE "failed",
                   IF passed THEN <<"Test passed">> ELSE <<"Test failed">>)]

\* Mutant of parseSimpleTestResults: the compilation branch marks the cases
\* failed, not error.
parseSimpleTestResultsFailed(text, allTests) ==
    IF hasCompilationError(text) /\ ~IncludesPass(text)
    THEN [i \in 1..Len(allTests) |->
            TestCaseResult(ResultName(allTests[i], i - 1),
                ResultDescription(allTests[i]), FALSE, "failed",
                <<"Compilation error in generated code">>)]
    ELSE [i \in 1..Len(allTests) |->
            LET found == LinesFor(text.lines,
                                  IndexedName(allTests[i].name, i - 1))
                totalPassCount ==
                    IF text.summary.present THEN text.summary.pass ELSE 0
                passed == IF found # <<>> THEN found[1].tag = "pass"
                          ELSE i - 1 < totalPassCount
            IN TestCaseResult(ResultName(allTests[i], i - 1),
                   ResultDescription(allTests[i]), passed,
                   IF passed THEN "passed" ELSE "failed",
                   IF passed THEN <<"Test passed">> ELSE <<"Test failed">>)]

\* parseSimpleTestResults, for a stderr that is a text.
parseSimpleTestResults(text, allTests) ==
    IF hasCompilationError(text) /\ ~IncludesPass(text)
    THEN [i \in 1..Len(allTests) |->
            TestCaseResult(ResultName(allTests[i], i - 1),
                ResultDescription(allTests[i]), FALSE, "error",
                <<"Compilation error in generated code">>)]
    ELSE [i \in 1..Len(allTests) |->
            LET found == LinesFor(text.lines,
                                  IndexedName(allTests[i].name, i - 1))
                totalPassCount ==
                    IF text.summary.present THEN text.summary.pass ELSE 0
                passed == IF found # <<>> THEN found[1].tag = "pass"
                          ELSE i - 1 < totalPassCount
            IN TestCaseResult(ResultName(allTests[i], i - 1),
                   ResultDescription(allTests[i]), passed,
                   IF passed THEN "passed" ELSE "failed",
                   IF passed THEN <<"Test passed">> ELSE <<"Test failed">>)]

\* testResults.filter(test => test.status === 'passed').length
PassedCount(tests) ==
    Cardinality({ i \in 1..Len(tests) : tests[i].status = "passed" })

\* Mutant of SuccessRate: the threshold is 0.5.
SuccessRateHalf(passedTests, totalTests) ==
    totalTests # 0 /\ 2 * passedTests >= totalTests

\* passedTests / totalTests >= 0.6; 0 / 0 is NaN, which is not >= 0.6.
SuccessRate(passedTests, totalTests) ==
    totalTests # 0 /\ 5 * passedTests >= 3 * totalTests

\* The TestResult of the normal return of runTests.
RunResult(tests, sig, issues) ==
    [success |-> SuccessRate(PassedCount(tests), Len(tests)),
     tests |-> tests,
     label |-> <<"Test", sig.name>>,
     hasWarnings |-> Len(lintWarnings(issues)) > 0]

\* The TestResult of the outer catch of runTests.
SetupErrorResult(message) ==
    [success |-> FALSE,
     tests |-> << TestCaseResult(<<"test", "setup">>,
                      <<"Test setup and preparation">>, FALSE, "error",
                      message) >>,
     label |-> <<"Failed test suite">>,
     hasWarnings |-> FALSE]

\* lintResult.issues.find(issue => issue.severity === 'error')?.message
FirstErrorMessage(issues) ==
    LET errors == SelectSeq(issues, LAMBDA issue : issue.severity = "error")
    IN IF errors = <<>> THEN <<"Syntax error in generated code">>
       ELSE errors[1].message

\* createSyntaxErrorResult
createSyntaxErrorResult(sig, issues) ==
    LET genericCases == generateGenericTests(sig)
    IN [success |-> FALSE,
        tests |-> [index \in 1..Len(genericCases) |->
                     TestCaseResult(ResultName(genericCases[index], index - 1),
                         ResultDescription(genericCases[index]), FALSE,
                         "error",
                         <<"Syntax error in generated code:">>
                             \o FirstErrorMessage(issues))],
        label |-> <<"Test", sig.name>>,
        hasWarnings |-> Len(lintWarnings(issues)) > 0]

\* ------------------------------------------------------------------------
\* runTests
\* ------------------------------------------------------------------------
\* The signatures extracted from the code under test: fn(), fn(a: boolean)
\* and fn(a: boolean[]).
RunSignatures ==
    { [name |-> "fn", parameters |-> <<>>] }
    \cup { [name |-> "fn",
            parameters |-> << [name |-> ParamName(1), type |-> type,
                               isOptional |-> FALSE, isRest |-> FALSE] >>] :
             type \in { <<"boolean">>, <<"boolean", "[]">> } }

\* The lists of user-supplied test case texts.
UserTestCaseLists ==
    { <<>> } \cup { << hint >> : hint \in UserHints }

\* What enhanceTestsWithLLMOrFallback may resolve with: the fallback list,
\* or what parseGeneratedTestCases makes of the oracle's reply.
enhanceTestsWithLLMOrFallback(sig) ==
    { generateFallbackTests(sig) }
    \cup { parseGeneratedTestCases(content, sig) :
             content \in { c \in Contents :
                             \/ c.kind = "prose"
                             \/ c.kind = "json" /\ Len(c.items) = 1 } }

InitRun ==
    /\ RetryOff
    /\ EnhanceIdle
    /\ GenericIdle
    /\ TcIdle
    /\ ApiIdle
    /\ ExtractIdle
    /\ signature \in RunSignatures
    /\ rpc = "idle"
    /\ lintResult = <<>>
    /\ originalPrompt \in BOOLEAN
    /\ userTestCases \in UserTestCaseLists
    /\ suite = NoSuite
    /\ files = {}
    /\ stderr = NoStderr
    /\ testResult = NoResult
    /\ calls = NoCalls

\* await lint(code) resolves; a syntax error ends the run, otherwise the
\* signature is extracted and the generic cases are generated.
RunLint ==
    /\ rpc = "idle"
    /\ \E issues \in LintOutcomes :
          /\ lintResult' = issues
          /\ IF hasSyntaxErrors(issues)
             THEN /\ testResult' = createSyntaxErrorResult(signature, issues)
                  /\ rpc' = "returned"
                  /\ UNCHANGED suite
             ELSE /\ suite' = [suite EXCEPT
                                 !.generic = generateGenericTests(signature)]
                  /\ rpc' = IF originalPrompt THEN "enhance" ELSE "write"
                  /\ UNCHANGED testResult
    /\ UNCHANGED <<originalPrompt, userTestCases, files, stderr, calls>>
    /\ UNCHANGED <<retryVars, enhanceVars, genericVars, tcVars, apiVars,
                   extractVars>>

\* await enhanceTestsWithLLMOrFallback(...) resolves.
RunEnhance ==
    /\ rpc = "enhance"
    /\ \E tests \in enhanceTestsWithLLMOrFallback(signature) :
          suite' = [suite EXCEPT !.llm = tests]
    /\ calls' = [calls EXCEPT !.enhancer = @ + 1]
    /\ rpc' = "write"
    /\ UNCHANGED <<lintResult, originalPrompt, userTestCases, files, stderr,
                   testResult>>
    /\ UNCHANGED <<retryVars, enhanceVars, genericVars, tcVars, apiVars,
                   extractVars>>

\* parseUserTestCases, then writeFileSync(tempFunctionPath, code): it
\* succeeds, or it throws; then the finally block finds no file to unlink
\* and the outer catch returns.
WriteFunctionFile ==
    /\ rpc = "write"
    /\ suite' = [suite EXCEPT
                   !.user = parseUserTestCases(userTestCases, signature)]
    /\ calls' = [calls EXCEPT !.writes = @ + 1]
    /\ \/ /\ files' = files \cup {"function"}
          /\ rpc' = "assemble"
          /\ UNCHANGED testResult
       \/ /\ files' = {}
          /\ rpc' = "returned"
          /\ testResult' = SetupErrorResult(<<"ENOSPC: write">>)
    /\ UNCHANGED <<lintResult, originalPrompt, userTestCases, stderr>>
    /\ UNCHANGED <<retryVars, enhanceVars, genericVars, tcVars, apiVars,
                   extractVars>>

\* generateComprehensiveTestCode, then writeFileSync(tempTestPath,
\* testCode): it succeeds, or it throws; then the finally block unlinks the
\* function file and the outer catch returns.
WriteTestFile ==
    /\ rpc = "assemble"
    /\ calls' = [calls EXCEPT !.writes = @ + 1]
    /\ \/ /\ files' = files \cup {"test"}
          /\ rpc' = "spawn"
          /\ UNCHANGED testResult
       \/ /\ files' = {}
          /\ rpc' = "returned"
          /\ testResult' = SetupErrorResult(<<"ENOSPC: write">>)
    /\ UNCHANGED <<lintResult, originalPrompt, userTestCases, suite, stderr>>
    /\ UNCHANGED <<retryVars, enhanceVars, genericVars, tcVars, apiVars,
                   extractVars>>

\* spawnSync('bun', ['test', tempTestPath]) returns.
SpawnExecutor ==
    /\ rpc = "spawn"
    /\ stderr' \in Stderrs(suite)
    /\ calls' = [calls EXCEPT !.executor = @ + 1]
    /\ rpc' = "parse"
    /\ UNCHANGED <<lintResult, originalPrompt, userTestCases, suite, files,
                   testResult>>
    /\ UNCHANGED <<retryVars, enhanceVars, genericVars, tcVars, apiVars,
                   extractVars>>

\* parseSimpleTestResults and the return; stderr.includes throws on null.
\* Either way the finally block unlinks both files.
ParseAndReturn ==
    /\ rpc = "parse"
    /\ testResult' =
          IF stderr.kind = "null"
          THEN SetupErrorResult(<<"null is not an object">>)
          ELSE RunResult(parseSimpleTestResults(stderr, AllTests(suite)),
                         signature, lintResult)
    /\ files' = {}
    /\ rpc' = "returned"
    /\ UNCHANGED <<lintResult, originalPrompt, userTestCases, suite, stderr,
                   calls>>
    /\ UNCHANGED <<retryVars, enhanceVars, genericVars, tcVars, apiVars,
                   extractVars>>

NextRun ==
    \/ RunLint
    \/ RunEnhance
    \/ WriteFunctionFile
    \/ WriteTestFile
    \/ SpawnExecutor
    \/ ParseAndReturn

SpecRun == InitRun /\ [][NextRun]_vars

\* ------------------------------------------------------------------------
\* Properties of the retry loop
\* ------------------------------------------------------------------------
HasError(errors) == \E i \in 1..Len(errors) : errors[i].severity = "error"

EveryPassHadErrors ==
    \A i \in 1..Len(iterationHistory) : HasError(iterationHistory[i].errors)

\* C1: with a retry budget N and type errors in every pass, the result has
\* iterations = N and N + 1 history steps, after exactly N + 1 oracle calls
\* and N + 1 type-checker calls.
RetryBound ==
    (pc = "done" /\ EveryPassHadErrors) =>
        /\ result.iterations = config.maxRetries
        /\ Len(result.iterationHistory) = config.maxRetries + 1
        /\ Len(prompts) = config.maxRetries + 1
        /\ Len(tscInputs) = config.maxRetries + 1

RetryBoundWitness ==
    /\ pc = "done"
    /\ EveryPassHadErrors
    /\ config.maxRetries = 2
    /\ Len(result.iterationHistory) = 3

StopsAtFirstCleanPass ==
    \A i \in 1..Len(iterationHistory) :
        ~HasError(iterationHistory[i].errors) =>
            /\ pc = "done"
            /\ result.success = TRUE
            /\ result.iterations = i - 1
            /\ Len(iterationHistory) = i
            /\ Len(prompts) = i

StopsAtFirstCleanPassWitness ==
    /\ pc = "done"
    /\ config.maxRetries = 3
    /\ Len(iterationHistory) = 2
    /\ iterationHistory[2].errors # <<>>
    /\ ~HasError(iterationHistory[2].errors)
    /\ result.iterations = 1

\* C4: an empty or whitespace-only goal, or a negative retry budget, makes
\* the call fail before the loop: no oracle call, no type check, no result.
FailsFast ==
    ( pc # "init" /\ (Trim(userGoal) = <<>> \/ config.maxRetries < 0) ) =>
        /\ pc = "failed"
        /\ thrown # NoError
        /\ prompts = <<>>
        /\ tscInputs = <<>>
        /\ iterationHistory = <<>>
        /\ result = NoResult

FailsFastWitness ==
    /\ pc = "failed"
    /\ userGoal = <<" ", " ">>
    /\ config.llmFunction
    /\ config.maxRetries >= 0

\* C5: the history of a result has one step per pass, numbered 0, 1, ...,
\* iterations; its last step carries the final code and errors; and a pass
\* only ever appends to the history.
HistoryOfResult ==
    pc = "done" =>
        /\ Len(result.iterationHistory) = result.iterations + 1
        /\ \A i \in 1..Len(result.iterationHistory) :
               result.iterationHistory[i].iteration = i - 1
        /\ LET last == result.iterationHistory[Len(result.iterationHistory)]
           IN /\ last.code = result.code
              /\ last.errors = result.typeCheckResult.errors
        /\ result.iterationHistory = iterationHistory
        /\ Len(iterationHistory) = Len(tscInputs)

HistoryAppendOnly ==
    /\ Len(iterationHistory') \in {Len(iterationHistory),
                                   Len(iterationHistory) + 1}
    /\ SubSeq(iterationHistory', 1, Len(iterationHistory)) = iterationHistory

HistoryComplete == []HistoryOfResult /\ [][HistoryAppendOnly]_vars

HistoryCompleteWitness ==
    /\ pc = "done"
    /\ result.iterations = 2
    /\ result.success = FALSE
    /\ Len(result.iterationHistory) = 3

\* ------------------------------------------------------------------------
\* Properties of the test enhancer
\* ------------------------------------------------------------------------
\* C6: whatever the oracle does (timeout, unavailable, no model, provider
\* error, unparseable reply, reply without a valid candidate), the list
\* enhanceTestsWithLLM returns is not empty.
EnhancerNeverEmpty ==
    enhanced.returned => enhanced.tests # <<>>

FallbackReasonings ==
    { <<"Validates basic functionality with expected input types">>,
      <<"Validates handling of empty but valid inputs">>,
      <<"Ensures function returns value matching declared return type">> }

TimeoutReturnsFallback ==
    race = "timeout" =>
        enhanced = [returned |-> TRUE,
                    tests |-> generateFallbackTests(signature)]

ReturnedIsFinal == enhanced.returned => enhanced' = enhanced

TimeoutAbandonsOracle ==
    /\ [](TimeoutReturnsFallback /\ chatRequests <= 1)
    /\ [][ReturnedIsFinal]_vars

TimeoutAbandonsOracleWitness ==
    /\ race = "timeout"
    /\ llm = "fulfilled"
    /\ chatRequests = 1
    /\ llmValue # <<>>
    /\ enhanced.tests # llmValue

InputLengthInRange(n) ==
    RequiredParams(signature) <= n /\ n <= TotalParams(signature)

\* C9: no test that came out of the oracle's reply has an input list
\* shorter than the number of required parameters or longer than the
\* number of parameters; the list returned on the oracle path is the list
\* of the candidates that passed.
ValidationBound ==
    llm = "fulfilled" =>
        /\ \A i \in 1..Len(llmValue) :
               InputLengthInRange(Len(llmValue[i].input))
        /\ reply.kind = "json" =>
               Len(llmValue) <=
                   Cardinality({ i \in 1..Len(reply.items) :
                       /\ reply.items[i].input.t = "array"
                       /\ InputLengthInRange(reply.items[i].input.n) })
        /\ race = "llm" => enhanced.tests = llmValue

ValidationBoundWitness ==
    /\ llm = "fulfilled"
    /\ race = "llm"
    /\ reply.kind = "json"
    /\ Len(reply.items) = 2
    /\ reply.items[1] = GoodCandidate(2)
    /\ reply.items[2] = GoodCandidate(1)
    /\ RequiredParams(signature) = 1
    /\ TotalParams(signature) = 1
    /\ Len(enhanced.tests) = 1

\* ------------------------------------------------------------------------
\* Properties of the generic test generator
\* ------------------------------------------------------------------------
\* Some parameter is declared with a number, string or array type.
HasTabledParameter ==
    \E i \in 1..Len(signature.parameters) :
        LET normalizedType == toLowerCase(signature.parameters[i].type)
        IN \/ includes(normalizedType, "number")
           \/ includes(normalizedType, "string")
           \/ includes(normalizedType, "array")
           \/ includes(normalizedType, "[]")

\* C10, as stated: a signature with at least one required parameter gets
\* at least 10 generic test cases, whatever the parameter types.
CoverageFloorAnyType ==
    (gpc = "done" /\ RequiredParams(signature) >= 1) =>
        Len(genericTests) >= 10

\* C10, amended: a signature with at least one required parameter gets at
\* least 5 generic test cases, and at least 10 when some parameter is
\* declared with a number, string or array type.
CoverageFloor ==
    (gpc = "done" /\ RequiredParams(signature) >= 1) =>
        /\ Len(genericTests) >= 5
        /\ HasTabledParameter => Len(genericTests) >= 10

CoverageFloorWitness ==
    /\ gpc = "done"
    /\ RequiredParams(signature) = 1
    /\ TotalParams(signature) = 1
    /\ signature.parameters[1].type = <<"boolean", "[]">>
    /\ Len(genericTests) = 10

\* The parameter is declared as a number.
IsNumeric(param) == toLowerCase(param.type) = <<"number">>

\* Where the description of a boundary case says "value for".
ValueForAt(description) ==
    CHOOSE j \in 1..Len(description) : description[j] = "value for"

\* The positions of the boundary cases that were generated for a parameter:
\* their description ends in "value for <parameter name>".
BoundaryCasesOf(param) ==
    { k \in 1..Len(genericTests) :
        LET test == genericTests[k]
        IN /\ test.name[1] = "boundary"
           /\ SubSeq(test.description, ValueForAt(test.description) + 1,
                     Len(test.description)) = param.name }

\* The variant a boundary case is tagged with.
VariantOf(test) ==
    SubSeq(test.description, 3, ValueForAt(test.description) - 1)

NumericVariants ==
    { << <<"zero">>, "false" >>,
      << <<"negative", "one">>, "false" >>,
      << <<"positive", "infinity">>, "true" >>,
      << <<"negative", "infinity">>, "true" >>,
      << <<"not", "a", "number">>, "true" >>,
      << <<"negative", "zero">>, "false" >> }

\* C11: for every parameter declared as a number, its boundary cases are
\* exactly the six variants zero, negative_one, positive_infinity,
\* negative_infinity, not_a_number and negative_zero, named
\* boundary_<parameter>_<variant>, and shouldThrow is true exactly for the
\* two infinity variants and not_a_number.
NumericBoundaryCases ==
    gpc = "done" =>
        \A i \in 1..Len(signature.parameters) :
            LET param == signature.parameters[i]
            IN IsNumeric(param) =>
                /\ Cardinality(BoundaryCasesOf(param)) = 6
                /\ { << VariantOf(genericTests[k]),
                        genericTests[k].shouldThrow >> :
                          k \in BoundaryCasesOf(param) } = NumericVariants
                /\ \A k \in BoundaryCasesOf(param) :
                       genericTests[k].name =
                           <<"boundary">> \o param.name
                               \o VariantOf(genericTests[k])

NumericBoundaryCasesWitness ==
    /\ gpc = "done"
    /\ Len(signature.parameters) = 2
    /\ IsNumeric(signature.parameters[1])
    /\ signature.parameters[2].type = <<"string">>
    /\ Cardinality(BoundaryCasesOf(signature.parameters[1])) = 6

\* C12, as stated: when the parameter names of the signature are pairwise
\* distinct, no two generic test cases share a name.
GenericNamesDistinct ==
    (/\ gpc = "done"
     /\ \A i, j \in 1..Len(signature.parameters) :
            signature.parameters[i].name = signature.parameters[j].name
                => i = j) =>
        \A k, l \in 1..Len(genericTests) :
            genericTests[k].name = genericTests[l].name => k = l

\* ------------------------------------------------------------------------
\* typeCheckFunction and its temporary files (io/tsc.ts, io/fs.ts)
\* ------------------------------------------------------------------------
Thrown(message) == [thrown |-> message]

InitTypeCheck ==
    /\ RetryOff
    /\ EnhanceIdle
    /\ GenericIdle
    /\ RunIdle
    /\ ApiIdle
    /\ ExtractIdle
    /\ signature = [name |-> "fn", parameters |-> <<>>]
    /\ tpc = "idle"
    /\ tcCode \in Replies
    /\ tmp = {}
    /\ cpc = "unstarted"
    /\ execResult = "none"
    /\ typeCheck = NoResult

\* Entry: the guard on blank code.
TcStart ==
    /\ tpc = "idle"
    /\ IF IsBlank(tcCode)
       THEN /\ tpc' = "thrown"
            /\ typeCheck' =
                  Thrown("Function code cannot be empty or only whitespace")
       ELSE /\ tpc' = "mkdtemp"
            /\ UNCHANGED typeCheck
    /\ UNCHANGED <<tcCode, tmp, cpc, execResult>>
    /\ UNCHANGED <<retryVars, enhanceVars, genericVars, runVars, apiVars,
                   extractVars>>

\* createTempFiles: await fs.mkdtemp(os.tmpdir()) creates the directory,
\* or rejects; the catch block rethrows.
MakeTempDir ==
    /\ tpc = "mkdtemp"
    /\ \/ /\ tmp' = tmp \cup {"dir"}
          /\ tpc' = "writeFile"
          /\ UNCHANGED typeCheck
       \/ /\ tpc' = "thrown"
          /\ typeCheck' = Thrown("Failed to write temporary file: mkdtemp")
          /\ UNCHANGED tmp
    /\ UNCHANGED <<tcCode, cpc, execResult>>
    /\ UNCHANGED <<retryVars, enhanceVars, genericVars, runVars, apiVars,
                   extractVars>>

\* createTempFiles: await fs.writeFile(tempFile, ...) writes the file, or
\* rejects, with or without a file left behind; the catch block rethrows
\* and typeCheckFunction rethrows in turn: no cleanup function exists yet.
WriteTempFile ==
    /\ tpc = "writeFile"
    /\ \/ /\ tmp' = tmp \cup {"file"}
          /\ tpc' = "exec"
          /\ UNCHANGED typeCheck
       \/ /\ tmp' \in { tmp, tmp \cup {"file"} }
          /\ tpc' = "thrown"
          /\ typeCheck' = Thrown("Failed to write temporary file: writeFile")
    /\ UNCHANGED <<tcCode, cpc, execResult>>
    /\ UNCHANGED <<retryVars, enhanceVars, genericVars, runVars, apiVars,
                   extractVars>>

\* await execAsync(tscCommand) settles: it resolves or rejects with the
\* compiler's output in stderr, or rejects without any.  The result is
\* returned and the finally block starts cleanup() without awaiting it.
ExecTsc ==
    /\ tpc = "exec"
    /\ \E outcome \in {"exit 0", "exit 2", "no output"} :
          /\ execResult' = outcome
          /\ typeCheck' =
                IF outcome = "no output"
                THEN [typeCheckFunction(tcCode) EXCEPT
                         !.errors = <<>>, !.isValid = TRUE]
                ELSE typeCheckFunction(tcCode)
    /\ tpc' = "returned"
    /\ cpc' = "unlink"
    /\ UNCHANGED <<tcCode, tmp>>
    /\ UNCHANGED <<retryVars, enhanceVars, genericVars, runVars, apiVars,
                   extractVars>>

\* cleanup(): await fs.unlink(tempFile) for the one file.
CleanupUnlink ==
    /\ cpc = "unlink"
    /\ tmp' = tmp \ {"file"}
    /\ cpc' = "rmdir"
    /\ UNCHANGED <<tpc, tcCode, execResult, typeCheck>>
    /\ UNCHANGED <<retryVars, enhanceVars, genericVars, runVars, apiVars,
                   extractVars>>

\* cleanup(): await fs.rmdir(tempDir), which needs the directory empty.
CleanupRmdir ==
    /\ cpc = "rmdir"
    /\ tmp' = IF "file" \in tmp THEN tmp ELSE tmp \ {"dir"}
    /\ cpc' = "done"
    /\ UNCHANGED <<tpc, tcCode, execResult, typeCheck>>
    /\ UNCHANGED <<retryVars, enhanceVars, genericVars, runVars, apiVars,
                   extractVars>>

NextTypeCheck ==
    \/ TcStart
    \/ MakeTempDir
    \/ WriteTempFile
    \/ ExecTsc
    \/ CleanupUnlink
    \/ CleanupRmdir

SpecTypeCheck == InitTypeCheck /\ [][NextTypeCheck]_vars

\* ------------------------------------------------------------------------
\* extractFunctionSignature (core/check.ts)
\* ------------------------------------------------------------------------
\* Source code is a sequence of tokens: words, punctuation, " " for a
\* blank and "NL" for a line break.
IsSpace(tok) == tok \in {" ", "NL"}

\* \w+ matches a run of these.
IsWord(tok) ==
    tok \in {"function", "const", "async", "export", "f", "g", "a", "b",
             "number", "string"}

\* !code?.trim()
CodeIsBlank(text) == \A i \in 1..Len(text) : IsSpace(text[i])

\* .replace(/\/\*[\s\S]*?\*\//g, '')
RECURSIVE StripBlockComments(_)
StripBlockComments(text) ==
    LET from == IndexFrom(text, "/*", 1)
        to == IF from = 0 THEN 0 ELSE IndexFrom(text, "*/", from + 1)
    IN IF to = 0 THEN text
       ELSE SubSeq(text, 1, from - 1)
            \o StripBlockComments(SubSeq(text, to + 1, Len(text)))

\* .replace(/\/\/.*$/gm, '')
RECURSIVE StripLineComments(_)
StripLineComments(text) ==
    LET from == IndexFrom(text, "//", 1)
        to == IF from = 0 THEN 0 ELSE IndexFrom(text, "NL", from + 1)
    IN IF from = 0 THEN text
       ELSE IF to = 0 THEN SubSeq(text, 1, from - 1)
       ELSE SubSeq(text, 1, from - 1)
            \o StripLineComments(SubSeq(text, to, Len(text)))

\* The first position at or after i that holds no white space.
RECURSIVE SkipSpaces(_, _)
SkipSpaces(text, i) ==
    IF i <= Len(text) /\ IsSpace(text[i]) THEN SkipSpaces(text, i + 1) ELSE i

\* The first position at or after i that holds no word.
RECURSIVE SkipWords(_, _)
SkipWords(text, i) ==
    IF i <= Len(text) /\ IsWord(text[i]) THEN SkipWords(text, i + 1) ELSE i

\* cleanCode.match(/(?:export\s+)?(?:async\s+)?function\s+(\w+)/)?.[1], or
\* <<>> when there is no match.
RECURSIVE FunctionMatchFrom(_, _)
FunctionMatchFrom(text, i) ==
    IF i > Len(text) THEN <<>>
    ELSE LET j == SkipSpaces(text, i + 1)
             k == SkipWords(text, j)
         IN IF text[i] = "function" /\ j > i + 1 /\ k > j
            THEN SubSeq(text, j, k - 1)
            ELSE FunctionMatchFrom(text, i + 1)

\* cleanCode.match(/(?:export\s+)?const\s+(\w+)\s*=\s*(?:async\s+)?\(/)?.[1],
\* or <<>> when there is no match.
RECURSIVE ArrowMatchFrom(_, _)
ArrowMatchFrom(text, i) ==
    IF i > Len(text) THEN <<>>
    ELSE LET j == SkipSpaces(text, i + 1)
             k == SkipWords(text, j)
             e == SkipSpaces(text, k)
             p == SkipSpaces(text, e + 1)
             q == SkipSpaces(text, p + 1)
         IN IF /\ text[i] = "const" /\ j > i + 1 /\ k > j
               /\ e <= Len(text) /\ text[e] = "="
               /\ p <= Len(text)
               /\ \/ text[p] = "("
                  \/ /\ text[p] = "async" /\ q > p + 1
                     /\ q <= Len(text) /\ text[q] = "("
            THEN SubSeq(text, j, k - 1)
            ELSE ArrowMatchFrom(text, i + 1)

\* cleanCode.match(/\(([^)]*)\)/)?.[1] || ''
ParamString(text) ==
    LET from == IndexFrom(text, "(", 1)
        to == IF from = 0 THEN 0 ELSE IndexFrom(text, ")", from + 1)
    IN IF to = 0 THEN <<>> ELSE SubSeq(text, from + 1, to - 1)

\* String.prototype.split, for a separator of one token.
RECURSIVE SplitOn(_, _)
SplitOn(text, sep) ==
    LET at == IndexFrom(text, sep, 1)
    IN IF at = 0 THEN << text >>
       ELSE << SubSeq(text, 1, at - 1) >>
            \o SplitOn(SubSeq(text, at + 1, Len(text)), sep)

\* String.prototype.trim, on tokens.
RECURSIVE TrimSpaces(_)
TrimSpaces(text) ==
    IF text = <<>> THEN <<>>
    ELSE IF IsSpace(text[1]) THEN TrimSpaces(Tail(text))
    ELSE IF IsSpace(text[Len(text)])
    THEN TrimSpaces(SubSeq(text, 1, Len(text) - 1))
    ELSE text

\* The position of the first "=" character of the text, or 0.
RECURSIVE EqualsFrom(_, _)
EqualsFrom(text, i) ==
    IF i > Len(text) THEN 0
    ELSE IF text[i] \in {"=", "=>"} THEN i
    ELSE EqualsFrom(text, i + 1)

\* nameWithOptional.replace('?', '')
RemoveFirst(text, tok) ==
    LET at == IndexFrom(text, tok, 1)
    IN IF at = 0 THEN text
       ELSE SubSeq(text, 1, at - 1) \o SubSeq(text, at + 1, Len(text))

\* The body of the loop of parseParameters for one trimmed part: the
\* parameter pushed, if any.
ParseParameter(part) ==
    LET isRest == part # <<>> /\ part[1] = "..."
        cleanPart == IF isRest THEN Tail(part) ELSE part
        pieces == SplitOn(cleanPart, ":")
        nameWithOptional == TrimSpaces(pieces[1])
        typeWithDefault ==
            IF Len(pieces) >= 2 THEN TrimSpaces(pieces[2]) ELSE <<>>
        eq == EqualsFrom(typeWithDefault, 1)
        type == TrimSpaces(IF eq = 0 THEN typeWithDefault
                           ELSE SubSeq(typeWithDefault, 1, eq - 1))
    IN IF part = <<>> \/ nameWithOptional = <<>> THEN <<>>
       ELSE << [name |-> RemoveFirst(nameWithOptional, "?"),
                type |-> IF type = <<>> THEN <<"any">> ELSE type,
                isOptional |-> includes(nameWithOptional, "?") \/ eq # 0,
                isRest |-> isRest] >>

RECURSIVE ParseParts(_)
ParseParts(parts) ==
    IF parts = <<>> THEN <<>>
    ELSE ParseParameter(TrimSpaces(Head(parts))) \o ParseParts(Tail(parts))

\* parseParameters
parseParameters(paramString) ==
    IF CodeIsBlank(paramString) THEN <<>>
    ELSE ParseParts(SplitOn(paramString, ","))

\* What a call of extractFunctionSignature ends in: the message of the
\* Error thrown, or NoError and the signature returned.
Extraction(message, name, parameters) ==
    [thrown |-> message, name |-> name, parameters |-> parameters]

\* Mutant of extractFunctionSignature: a text without a declaration name
\* is an error.
extractFunctionSignatureStrict(text) ==
    LET cleanCode == StripLineComments(StripBlockComments(text))
        functionMatch == FunctionMatchFrom(cleanCode, 1)
        arrowMatch == ArrowMatchFrom(cleanCode, 1)
    IN IF CodeIsBlank(text)
       THEN Extraction("Code cannot be empty or only whitespace", <<>>, <<>>)
       ELSE IF functionMatch = <<>> /\ arrowMatch = <<>>
       THEN Extraction("No function declaration found", <<>>, <<>>)
       ELSE Extraction(NoError,
                IF functionMatch # <<>> THEN functionMatch ELSE arrowMatch,
                parseParameters(ParamString(cleanCode)))

\* extractFunctionSignature: name and parameters of the signature.
extractFunctionSignature(text) ==
    LET cleanCode == StripLineComments(StripBlockComments(text))
        functionMatch == FunctionMatchFrom(cleanCode, 1)
        arrowMatch == ArrowMatchFrom(cleanCode, 1)
    IN IF CodeIsBlank(text)
       THEN Extraction("Code cannot be empty or only whitespace", <<>>, <<>>)
       ELSE Extraction(NoError,
                IF functionMatch # <<>> THEN functionMatch
                ELSE IF arrowMatch # <<>> THEN arrowMatch
                ELSE <<"unknownFunction">>,
                parseParameters(ParamString(cleanCode)))

MaxCodeLen == 2

\* The tokens of the short texts.
CodeTokens ==
    {" ", "NL", "function", "const", "f", "(", ")", "=", "//", "/*"}

\* function f(a: number, b?: string) { }
RegularFunction ==
    <<"function", " ", "f", "(", "a", ":", " ", "number", ",", " ", "b", "?",
      ":", " ", "string", ")", " ", "{", " ", "}">>

\* The texts handed to extractFunctionSignature: every text of up to
\* MaxCodeLen tokens, and some declarations, three of them with a comma
\* inside a generic argument list, an object type and a callback type.
Codes ==
    SeqsUpTo(CodeTokens, MaxCodeLen)
    \cup { RegularFunction,
           <<"export", " ", "async", " ">> \o RegularFunction,
           <<"/*", " ", "function", " ", "g", " ", "*/", "NL">>
               \o RegularFunction,
           <<"const", " ", "g", " ", "=", " ", "(", "a", ":", " ", "number",
             ")", " ", "=>", " ", "a">>,
           <<"const", " ", "g", "=", "async", " ", "(", ")", " ", "=>", " ",
             "{", "}">>,
           <<"const", " ", "g", " ", "=", " ", "a", " ", "=>", " ", "a">>,
           <<"(", "...", "a", ":", " ", "number", "[]", ")", " ", "=>", " ",
             "a">>,
           <<"function", "(", "a", " ", "=", " ", "f", ")", " ", "{", "}">>,
           <<"//", " ", "function", " ", "f", "(", ")">>,
           <<"function", " ", "f", "(", "a", ":", " ", "Map", "<", "string",
             ",", " ", "number", ">", ")", " ", "{", " ", "}">>,
           <<"function", " ", "f", "(", "o", ":", " ", "{", " ", "x", ":", " ",
             "number", ",", " ", "y", ":", " ", "string", " ", "}", ")", " ",
             "{", " ", "}">>,
           <<"function", " ", "f", "(", "cb", ":", " ", "(", "x", ":", " ",
             "number", ",", " ", "y", ":", " ", "number", ")", " ", "=>", " ",
             "void", ")", " ", "{", " ", "}">>,
           <<" ", "NL", " ", "NL">> }

InitExtract ==
    /\ RetryOff
    /\ EnhanceIdle
    /\ GenericIdle
    /\ RunIdle
    /\ TcIdle
    /\ ApiIdle
    /\ signature = [name |-> "fn", parameters |-> <<>>]
    /\ xpc = "idle"
    /\ sourceCode \in Codes
    /\ extracted = NoResult

\* The call of extractFunctionSignature(code).
Extract ==
    /\ xpc = "idle"
    /\ extracted' = extractFunctionSignature(sourceCode)
    /\ xpc' = "done"
    /\ UNCHANGED sourceCode
    /\ UNCHANGED <<retryVars, enhanceVars, genericVars, runVars, tcVars,
                   apiVars>>

NextExtract == Extract

SpecExtract == InitExtract /\ [][NextExtract]_vars

\* ------------------------------------------------------------------------
\* The /api/generate handler of startServer
\* ------------------------------------------------------------------------
\* maxRetries: 3
ServerMaxRetries == 3

\* obj.key; Undefined when the object has no such property.
Property(obj, key) == IF key \in DOMAIN obj THEN obj[key] ELSE Undefined

\* !code?.trim() of formatAndLintFunction and generateAndRunTests.
CodeIsEmpty(text) == text = Undefined \/ IsBlank(text)

\* The body of the catch branch: { success: false, error }.
ErrorResponse(message, llmIssue) ==
    [success |-> FALSE,
     fields |-> {"success", "error"},
     code |-> NoCode,
     typeCheckResult |-> NoTypeCheck,
     error |-> message,
     status |-> IF llmIssue THEN 503 ELSE 400]

\* The body of the try branch.
FunctionResponse(highlightedCode, res) ==
    [success |-> TRUE,
     fields |-> {"success", "code", "typeCheckResult", "lintResult",
                 "testResult"},
     code |-> highlightedCode,
     typeCheckResult |-> res,
     error |-> NoError,
     status |-> 200]

\* What the handler does once generateFunctionWithRetries has returned:
\* formatAndLintFunction, generateAndRunTests, codeToHtml, the response.
\* Both calls throw on an empty text and when their temporary files
\* cannot be written.
ResponseAfterGeneration(generationResult, outcome) ==
    LET finalCode == Property(generationResult, "finalCode")
    IN  IF CodeIsEmpty(finalCode)
        THEN ErrorResponse("Code cannot be empty or only whitespace", FALSE)
        ELSE IF outcome = "format throws"
        THEN ErrorResponse("Failed to write temporary file", FALSE)
        ELSE IF outcome = "tests throw"
        THEN ErrorResponse("Test generation and execution failed", FALSE)
        ELSE FunctionResponse(finalCode,
                              Property(generationResult, "typeCheckResult"))

InitServer ==
    /\ InitRetry
    /\ config = [maxRetries |-> ServerMaxRetries, llmFunction |-> TRUE]

\* generateFunctionWithRetries resolved.
ApiRespond ==
    /\ pc = "done"
    /\ response = NoResponse
    /\ \E outcome \in {"ok", "format throws", "tests throw"} :
           response' = ResponseAfterGeneration(result, outcome)
    /\ UNCHANGED <<retryVars, enhanceVars, genericVars, runVars, tcVars,
                   extractVars>>

\* generateFunctionWithRetries rejected.  The text of a rejection of
\* llmFunction is not fixed, so isLLMError can go either way for it; no
\* other message holds one of the three phrases.
ApiCatch ==
    /\ pc = "failed"
    /\ response = NoResponse
    /\ \E llmIssue \in (IF thrown = "LLM error" THEN BOOLEAN ELSE {FALSE}) :
           response' = ErrorResponse(thrown, llmIssue)
    /\ UNCHANGED <<retryVars, enhanceVars, genericVars, runVars, tcVars,
                   extractVars>>

NextServer ==
    \/ NextRetry
    \/ ApiRespond
    \/ ApiCatch

SpecServer == InitServer /\ [][NextServer]_vars

\* ------------------------------------------------------------------------
\* Properties of runTests
\* ------------------------------------------------------------------------
\* The cases have been handed to generateComprehensiveTestCode.
Assembled == rpc \in {"spawn", "parse"} \/ (rpc = "returned" /\ stderr # NoStderr)

\* C13, as stated: every case handed to the assembler (generic, domain or
\* fallback, user-supplied) has an input list whose length lies between the
\* number of required parameters and the number of parameters.
HandedInputsInRange ==
    Assembled =>
        \A i \in 1..Len(AllTests(suite)) :
            InputLengthInRange(Len(AllTests(suite)[i].input))

\* C14: the run's success flag is true exactly when the share of case
\* results with status passed is at least 0.6 (7 of 10: true, 2 of 5:
\* false), on every return path of runTests.
AggregateVerdict ==
    rpc = "returned" =>
        LET passedTests == PassedCount(testResult.tests)
            totalTests == Len(testResult.tests)
        IN testResult.success <=>
              (totalTests > 0 /\ 10 * passedTests >= 6 * totalTests)

AggregateVerdictWitness ==
    /\ rpc = "returned"
    /\ Len(testResult.tests) = 10
    /\ PassedCount(testResult.tests) = 7
    /\ testResult.success

\* C15, as stated: when the executor's output has a pass or fail line that
\* carries the name the assembled unit gave a case, the result of that case
\* takes its passed flag from that line; for generic, domain and
\* user-supplied cases alike.
PerCaseLineDecides ==
    (rpc = "returned" /\ stderr # NoStderr /\ stderr.kind = "text") =>
        LET unit == generateComprehensiveTestCode(suite.generic, suite.llm,
                                                  suite.user)
        IN \A i \in 1..Len(unit) :
              \A k \in 1..Len(stderr.lines) :
                  stderr.lines[k].testName = unit[i].testName =>
                      testResult.tests[i].passed
                          = (stderr.lines[k].tag = "pass")

\* The executor's output shows a hard compilation or parse failure: it
\* carries SyntaxError, Unexpected token or Missing semicolon, or "error:"
\* without any expect( or per-case line, and nowhere the word pass.
HardFailureShown ==
    /\ stderr # NoStderr
    /\ stderr.kind = "text"
    /\ \/ stderr.syntaxError
       \/ /\ stderr.errorColon
          /\ ~stderr.expectParen
          /\ \A k \in 1..Len(stderr.lines) :
                stderr.lines[k].tag \notin {"pass", "fail"}
    /\ ~stderr.summary.present
    /\ \A k \in 1..Len(stderr.lines) : stderr.lines[k].tag # "pass"

SyntaxErrorReported ==
    \E i \in 1..Len(lintResult) :
        /\ lintResult[i].severity = "error"
        /\ \/ lintResult[i].rule = "parser-error"
           \/ \E phrase \in {"SyntaxError", "Unexpected token",
                             "Missing semicolon", "Unexpected end of input"} :
                 includes(lintResult[i].message, phrase)

TempFilesReleased ==
    (tpc = "thrown" \/ (tpc = "returned" /\ cpc = "done")) => tmp = {}

\* ------------------------------------------------------------------------
\* Properties of extractFunctionSignature
\* ------------------------------------------------------------------------
\* The text with its comments taken out.
Uncommented == StripLineComments(StripBlockComments(sourceCode))

\* positions from..to of the text hold white space only
SpacesBetween(text, from, to) == \A m \in from..to : IsSpace(text[m])

\* The text has "function", white space and a word.
HasFunctionName(text) ==
    \E i \in 1..Len(text) :
        \E j \in (i + 2)..Len(text) :
            /\ text[i] = "function"
            /\ SpacesBetween(text, i + 1, j - 1)
            /\ IsWord(text[j])

\* The text has "const", white space, words, "=" and an opening
\* parenthesis, with async before the parenthesis or not.
HasArrowName(text) ==
    \E i \in 1..Len(text) :
        \E j \in (i + 2)..Len(text) :
            \E e \in (j + 1)..Len(text) :
                \E p \in (e + 1)..Len(text) :
                    /\ text[i] = "const"
                    /\ SpacesBetween(text, i + 1, j - 1)
                    /\ \E k \in j..(e - 1) :
                          /\ \A m \in j..k : IsWord(text[m])
                          /\ SpacesBetween(text, k + 1, e - 1)
                    /\ text[e] = "="
                    /\ \/ /\ SpacesBetween(text, e + 1, p - 1)
                          /\ text[p] = "("
                       \/ \E q \in (e + 1)..(p - 2) :
                             /\ SpacesBetween(text, e + 1, q - 1)
                             /\ text[q] = "async"
                             /\ SpacesBetween(text, q + 1, p - 1)
                             /\ text[p] = "("

EndedWithTypeErrors == pc = "done" /\ ~result.success

\* C19: when the retry loop ends with type errors still present, the
\* response of /api/generate has success = false and its code and
\* typeCheckResult fields are populated.
PartialResultOnExhaustion ==
    (EndedWithTypeErrors /\ response # NoResponse)
        => /\ response.success = FALSE
           /\ "code" \in response.fields
           /\ "typeCheckResult" \in response.fields

\* ------------------------------------------------------------------------
\* Properties of the retry loop's collaborator calls
\* ------------------------------------------------------------------------
\* The reply of the pass whose type check is number i (from 1): the one the
\* history has recorded for it, or currentCode while the check is running.
ReplyOfCheck(i) ==
    IF i <= Len(iterationHistory) THEN iterationHistory[i].code
    ELSE currentCode

\* C21, as stated: in every pass, the first and every retry alike, the
\* type checker is called on the extracted code of that pass's reply, never
\* on the raw reply.
TypeCheckOnExtractedCode ==
    \A i \in 1..Len(tscInputs) :
        tscInputs[i] = extractCodeBlock(ReplyOfCheck(i))

\* Calls issued and not yet settled: each prompt is one oracle call, each
\* type-checker input one check; a reply is what starts the check, a
\* recorded step is what ends it.
OutstandingCalls ==
    IF pc \in {"llm", "tsc"}
    THEN (Len(prompts) - Len(tscInputs))
         + (Len(tscInputs) - Len(iterationHistory))
    ELSE 0

\* C22: at most one collaborator call is outstanding; the oracle call of
\* retry pass k >= 1 is issued once the type check of pass k-1 is over, and
\* its prompt holds the goal and the reply and errors of pass k-1.
RetryLoopSequential ==
    /\ OutstandingCalls <= 1
    /\ pc = "llm" => Len(iterationHistory) = Len(prompts) - 1
    /\ \A k \in 2..Len(prompts) :
           /\ Len(iterationHistory) >= k - 1
           /\ prompts[k].kind = "retry"
           /\ prompts[k].userGoal = userGoal
           /\ prompts[k].previousCode = iterationHistory[k - 1].code
           /\ prompts[k].errors = iterationHistory[k - 1].errors

\* A second retry is under way, after two passes with different replies.
RetryLoopSequentialWitness ==
    /\ pc = "llm"
    /\ Len(prompts) = 3
    /\ iterationHistory[1].code # iterationHistory[2].code
    /\ iterationHistory[1].errors # iterationHistory[2].errors

\* C23: when an oracle call fails, in the first pass or in a retry, the
\* function fails with that error: the failed call is the last call made,
\* no type check follows it, and no GenerationResult is returned, so the
\* steps recorded so far do not reach the caller.
OracleFailureIsFatal ==
    thrown = "LLM error"
        => /\ pc = "failed"
           /\ result = NoResult
           /\ Len(tscInputs) = Len(prompts) - 1
           /\ Len(iterationHistory) = Len(prompts) - 1

\* The oracle failed in a retry, with steps already recorded.
OracleFailureIsFatalWitness ==
    /\ thrown = "LLM error"
    /\ pc = "failed"
    /\ Len(iterationHistory) >= 2

\* ------------------------------------------------------------------------
\* Properties of the null and undefined cases
\* ------------------------------------------------------------------------
\* Some generated case is marked shouldThrow with the TypeError tag and has
\* value at parameter i and the typical value everywhere else.
HasIsolatingCase(i, value) ==
    \E k \in 1..Len(genericTests) :
        /\ genericTests[k].input = InputsWith(signature.parameters, i, value)
        /\ genericTests[k].shouldThrow = "true"
        /\ genericTests[k].expectedError = "TypeError"

\* C24, as stated: for every required parameter p there are a null case
\* and an undefined case in which p alone is null (undefined) and every
\* other parameter holds its typical value, both marked shouldThrow with
\* the TypeError tag.
NullCasePerRequiredParameter ==
    gpc = "done"
        => \A i \in 1..Len(signature.parameters) :
               ~signature.parameters[i].isOptional
                   => /\ HasIsolatingCase(i, "null")
                      /\ HasIsolatingCase(i, "undefined")

\* ------------------------------------------------------------------------
\* Properties of the accepted oracle tests
\* ------------------------------------------------------------------------
\* A free-text field as the spec wants it: not empty, no angle bracket, no
\* template marker, at most StringLimit characters.
CleanText(chars) ==
    /\ chars # <<>>
    /\ \A i \in 1..Len(chars) :
           chars[i] \notin {"<", ">", "BACKTICK", "$", "{", "}"}
    /\ Len(chars) <= StringLimit

CountNamed(tests, name) ==
    Cardinality({ i \in 1..Len(tests) : tests[i].name = name })

\* Some parameter has an array or string type, in any spelling.
HasContainerOrTextParameter ==
    \E i \in 1..Len(signature.parameters) :
        LET normalizedType == toLowerCase(signature.parameters[i].type)
        IN \/ includes(normalizedType, "array")
           \/ includes(normalizedType, "[]")
           \/ includes(normalizedType, "string")

\* C26, as stated: the fallback list is exactly one typical-inputs case,
\* one empty-inputs case if and only if some parameter has an array or
\* string type in any spelling, and one return-type case; every input list
\* has one value per parameter.
FallbackListShape ==
    (enhanced.returned /\ race = "timeout") =>
        LET tests == enhanced.tests
            emptyCases == IF HasContainerOrTextParameter THEN 1 ELSE 0
        IN /\ CountNamed(tests, <<"functional_typical_case">>) = 1
           /\ CountNamed(tests, <<"functional_empty_inputs">>) = emptyCases
           /\ CountNamed(tests, <<"return_type_consistency">>) = 1
           /\ Len(tests) = 2 + emptyCases
           /\ \A i \in 1..Len(tests) :
                  Len(tests[i].input) = Len(signature.parameters)

\* ------------------------------------------------------------------------
\* Properties of the positional fallback
\* ------------------------------------------------------------------------
\* The run returned from an executor output that has the aggregate counts
\* and no per-case line.
OnlyAggregateCounts ==
    /\ rpc = "returned"
    /\ stderr.kind = "text"
    /\ stderr.summary.present
    /\ stderr.lines = <<>>

\* C27: when the output carries only the aggregate counts, P passed, the
\* case at position i (from 0, in assembly order) is passed exactly when
\* i < P, so min(P, number of cases) cases are reported passed.
PositionalAssignment ==
    OnlyAggregateCounts =>
        LET tests == testResult.tests
            P == stderr.summary.pass
        IN /\ Len(tests) = Len(AllTests(suite))
           /\ \A i \in 1..Len(tests) : tests[i].passed <=> (i - 1 < P)
           /\ PassedCount(tests) = IF P < Len(tests) THEN P ELSE Len(tests)

\* Two passed out of more than two, no per-case line.
PositionalAssignmentWitness ==
    /\ OnlyAggregateCounts
    /\ stderr.summary.pass = 2
    /\ Len(testResult.tests) > 2
    /\ testResult.tests[2].passed
    /\ ~testResult.tests[3].passed

\* ------------------------------------------------------------------------
\* Properties of the returned results
\* ------------------------------------------------------------------------
\* The TestCases of the run, in assembly order: the generic cases of the
\* signature, the domain cases obtained, the cases parsed from the
\* user-supplied texts.
CasesOfRun ==
    generateGenericTests(signature) \o suite.llm
        \o parseUserTestCases(userTestCases, signature)

\* runTests returned through its outer catch.
SetupFailed == testResult.label = <<"Failed test suite">>

\* C28, as stated: on the normal, the compilation-failure and the
\* syntax-error path, the returned TestResult has exactly one
\* TestCaseResult per TestCase of the run (generic, domain, user-supplied),
\* in assembly order, and passed is true exactly when status is passed.
OneResultPerCase ==
    (rpc = "returned" /\ ~SetupFailed) =>
        LET tests == testResult.tests
        IN /\ Len(tests) = Len(CasesOfRun)
           /\ \A i \in 1..Len(tests) :
                  /\ tests[i].name = ResultName(CasesOfRun[i], i - 1)
                  /\ tests[i].passed <=> (tests[i].status = "passed")

\* ------------------------------------------------------------------------
\* Properties of the parameter split
\* ------------------------------------------------------------------------
\* The number of parameters a parameter list declares: text is scanned from
\* position i, inside the list, depth brackets deep; commas counts the
\* commas met at depth 1 and some tells whether the list has any content.
RECURSIVE CountDeclared(_, _, _, _, _)
CountDeclared(text, i, depth, commas, some) ==
    IF i > Len(text) THEN 0
    ELSE IF text[i] = ")" /\ depth = 1
    THEN (IF some THEN commas + 1 ELSE 0)
    ELSE IF text[i] \in {"(", "<", "{", "["}
    THEN CountDeclared(text, i + 1, depth + 1, commas, TRUE)
    ELSE IF text[i] \in {")", ">", "}", "]"}
    THEN CountDeclared(text, i + 1, depth - 1, commas, TRUE)
    ELSE IF text[i] = "," /\ depth = 1
    THEN CountDeclared(text, i + 1, depth, commas + 1, some)
    ELSE CountDeclared(text, i + 1, depth, commas,
                       some \/ ~IsSpace(text[i]))

\* The parameters declared by the first parameter list of the text.
DeclaredParameters(text) ==
    LET cleanCode == StripLineComments(StripBlockComments(text))
        from == IndexFrom(cleanCode, "(", 1)
    IN IF from = 0 THEN 0
       ELSE CountDeclared(cleanCode, from + 1, 1, 0, FALSE)

\* C29, as stated: the parameter list is split on top-level commas only, a
\* comma nested inside brackets does not start a new parameter, so the
\* number of extracted parameters is the number of declared ones.
SplitOnTopLevelCommas ==
    (xpc = "done" /\ extracted.thrown = NoError)
        => Len(extracted.parameters) = DeclaredParameters(sourceCode)

\* ------------------------------------------------------------------------
\* Properties of the verdict
\* ------------------------------------------------------------------------
\* C30, as stated: in every GenerationResult success is true exactly when
\* typeCheckResult.isValid is true, also when the final check reports
\* warnings only.
VerdictMatchesValidity ==
    pc = "done" => (result.success <=> result.typeCheckResult.isValid)

====
